---- MODULE Spec2Model ----
(***************************************************************************)
(* Model of the AASLD guideline scraper (Data_Extraction.py): the          *)
(* transport client (fetch, fetch_with_requests, fetch_with_selenium), the *)
(* singleton Selenium session (init / close / reset), the link frontier    *)
(* builder and main's processing loop.                                     *)
(*                                                                         *)
(* Strings are sequences of tokens; substring, prefix and suffix tests of  *)
(* the source are computed on those sequences.                             *)
(***************************************************************************)
EXTENDS Naturals, Integers, Sequences, FiniteSets, TLC

(***************************************************************************)
(* Bounds of the model                                                     *)
(***************************************************************************)
MaxSessions == 3
MaxPages == 2
MaxPageLinks == 1

(***************************************************************************)
(* Program constants (delays in tenths of a second)                        *)
(***************************************************************************)
RATE_LIMIT_REQUESTS == 15
RATE_LIMIT_SELENIUM == 50
CLOUDFLARE_WAIT == 150
SETTLE_WAIT == 30
RETRY_WAIT == 100
RESET_WAIT == 20
MIN_TEXT_LENGTH == 100

(***************************************************************************)
(* Token strings                                                           *)
(***************************************************************************)
StartsWith(s, t) == Len(t) <= Len(s) /\ SubSeq(s, 1, Len(t)) = t

EndsWith(s, t) == Len(t) <= Len(s) /\ SubSeq(s, Len(s) - Len(t) + 1, Len(s)) = t

Contains(s, t) ==
    \E i \in 0..Len(s) : i + Len(t) <= Len(s) /\ SubSeq(s, i + 1, i + Len(t)) = t

\* index of the first occurrence of token c in s, Len(s)+1 if there is none
IndexOf(s, c) ==
    IF \E i \in 1..Len(s) : s[i] = c
    THEN CHOOSE i \in 1..Len(s) : s[i] = c /\ \A j \in 1..(i - 1) : s[j] # c
    ELSE Len(s) + 1

\* str.lower() on one token
LowerTok(c) ==
    CASE c = "About" -> "about"
      [] c = "Facebook.com" -> "facebook.com"
      [] c = "Practice" -> "practice"
      [] c = "Guid" -> "guid"
      [] c = "Supplement" -> "supplement"
      [] c = "Material" -> "material"
      [] c = "Related" -> "related"
      [] c = "Recommendation" -> "recommendation"
      [] c = "Summary" -> "summary"
      [] c = "Case" -> "case"
      [] c = "Moderate" -> "moderate"
      [] OTHER -> c

Lower(s) == [i \in 1..Len(s) |-> LowerTok(s[i])]

\* s.rstrip(c)
RECURSIVE RStrip(_, _)
RStrip(s, c) ==
    IF Len(s) > 0 /\ s[Len(s)] = c THEN RStrip(SubSeq(s, 1, Len(s) - 1), c) ELSE s

\* Python's None, kept apart from every string
None == <<"<None>">>

\* truth value of an Optional[str]
Truthy(s) == s # None /\ s # <<>>

(***************************************************************************)
(* Helper functions of the source                                          *)
(***************************************************************************)
is_cloudflare_challenge(html) ==
    \/ Contains(html, <<"Just a moment">>)
    \/ Contains(html, <<"Verify you are human">>)
    \/ Contains(html, <<"Checking your browser">>)

\* line 127 without rstrip("/")
clean_url_keep_slash(u) == SubSeq(u, 1, IndexOf(u, "#") - 1)

\* line 127: u.split("#")[0].rstrip("/")
clean_url(u) == RStrip(SubSeq(u, 1, IndexOf(u, "#") - 1), "/")

\* urlparse(u).netloc and urlparse(u).path for scheme://netloc/path?query
AfterScheme(u) == IF Len(u) > 0 /\ u[1] = "https://" THEN SubSeq(u, 2, Len(u)) ELSE u

NetlocEnd(r) ==
    LET a == IndexOf(r, "/")
        b == IndexOf(r, "?")
    IN  IF a < b THEN a ELSE b

Netloc(u) == SubSeq(AfterScheme(u), 1, NetlocEnd(AfterScheme(u)) - 1)

UrlPath(u) ==
    LET r == AfterScheme(u)
        rest == SubSeq(r, NetlocEnd(r), Len(r))
    IN  SubSeq(rest, 1, IndexOf(rest, "?") - 1)

(***************************************************************************)
(* URLs and markup of the model                                            *)
(***************************************************************************)
MAIN_URL == <<"https://", "www.", "aasld.org", "/", "practice-guidelines">>
PageA == MAIN_URL \o <<"/", "hep-b">>
PageB == MAIN_URL \o <<"/", "hep-c">>
LinkHtml == PageA \o <<"/", "guidance">>
LinkLww == <<"https://", "journals.lww.com", "/", "hep", "/", "fulltext">>
LinkPdf == <<"https://", "www.", "aasld.org", "/", "sites/default/files", "/", "doc", ".pdf">>
LinkRef == PageA \o <<"/", "guidance", "?", "ref=", "journals.lww.com">>

ChallengePages ==
    { <<"<html>", "Just a moment", "</html>">>,
      <<"<html>", "Verify you are human", "</html>">>,
      <<"Checking your browser">> }

ContentPages ==
    { <<"<html>", "long-text", "</html>">>,
      <<"<html>", "short-text", "</html>">> }

\* what driver.page_source can hold
PageSources == ChallengePages \cup ContentPages

\* what the lightweight backend can hand back: None (exception or non-200),
\* an empty body, a challenge page or content
RequestResults == {None, <<>>} \cup PageSources

(***************************************************************************)
(* State                                                                   *)
(***************************************************************************)
VARIABLES
    pc,            \* position of the single thread of control
    caller,        \* who called fetch: "api", "disease", "links" or "loop"
    url,           \* argument of the running fetch
    force_selenium,\* argument of the running fetch
    retry_count,   \* argument of the running fetch_with_selenium frame
    retval,        \* value returned by the last fetch
    DRIVER,        \* the global handle: 0 is None, else a session id
    created,       \* number of Chrome sessions created so far (ids 1..created)
    quitted,       \* ids of the sessions on which quit() was called
    lastSleep,     \* length of the last time.sleep since the last backend request
    reqs,          \* lightweight GETs issued by the running fetch
    navs,          \* driver.get calls issued by the running fetch
    checks,        \* challenge checks made by the running fetch_with_selenium
    allChallenged, \* every one of those checks found a challenge
    raised,        \* an exception was raised inside the running fetch_with_selenium
    reqResult,     \* what fetch_with_requests returned to the running fetch
    usedBefore     \* an earlier fetch of this run entered fetch_with_selenium

fetchVars == <<pc, caller, url, force_selenium, retry_count, retval, DRIVER, created,
               quitted, lastSleep, reqs, navs, checks, allChallenged, raised, reqResult,
               usedBefore>>

VARIABLES
    PDF_SUPPORT,   \* whether PyPDF2 could be imported
    disease_pages, \* result of get_disease_links
    pageIdx,       \* position of the Stage 2 loop in disease_pages
    all_links,     \* links gathered over the disease pages
    unique_links,  \* the frontier
    idx,           \* position of the Stage 3 loop in unique_links
    results,       \* the results list
    stats,         \* the counters
    exitKind,      \* how main left its try block
    abortCause,    \* the exception that left it, if any
    heldAtFinally, \* value of DRIVER when the finally clause began
    results_file,  \* data/metadata/processing_results.json: whether written, and the list
    json_dir,      \* data/json: the stems (URL digests) that have a file there
    text_dir       \* data/text_content: the stems that have a file there

diskVars == <<results_file, json_dir, text_dir>>

mainVars == <<PDF_SUPPORT, disease_pages, pageIdx, all_links, unique_links, idx, results,
              stats, exitKind, abortCause, heldAtFinally, diskVars>>

\* inputs and results of the functions checked on their own
VARIABLES
    link_url,      \* is_valid_content_link: argument url
    link_base,     \* is_valid_content_link: argument base_url
    link_valid,    \* is_valid_content_link: the result, once pc = "valid_done"
    soup,          \* the parsed category page
    heading,       \* position of the heading whose section was extracted, 0 before
    section_links, \* positions of the anchors found in the extracted section
    collected_links, \* get_links_under_target_headings: the list being built
    arg,           \* argument of the function applied on its own
    ret            \* what that function returned, None before the call

fnVars == <<collected_links, arg, ret>>

pureVars == <<link_url, link_base, link_valid, soup, heading, section_links, fnVars>>

vars == <<fetchVars, mainVars, pureVars>>

\* marker for "fetch_with_requests was not called"
NotCalled == <<"<not called>">>

(***************************************************************************)
(* Selenium driver management                                              *)
(***************************************************************************)
\* sessions created and not yet quit
Live == (1..created) \ quitted

\* close_selenium_driver: quit the session the handle refers to
close_selenium_driver_leaky(d, q) == q

close_selenium_driver(d, q) == IF d # 0 THEN q \cup {d} ELSE q

\* init_selenium_driver when DRIVER is None: the three outcomes.
\* ok: Chrome created and configured; failed before webdriver.Chrome returned;
\* failed after it (set_*_timeout / execute_script raised): the except
\* branch sets DRIVER = None without quitting the new session.
InitOk ==
    /\ created < MaxSessions
    /\ created' = created + 1
    /\ DRIVER' = created + 1

InitFailEarly ==
    /\ created' = created
    /\ DRIVER' = 0

InitFailLate ==
    /\ created < MaxSessions
    /\ created' = created + 1
    /\ DRIVER' = 0

(***************************************************************************)
(* fetch_with_selenium                                                     *)
(***************************************************************************)
\* the retry test of line 325
RetryAllowedTwice(r) == r < 2

RetryAllowed(r) == r < 1

\* the sleep of line 312, before driver.get
NavDelayFirstOnly(r) == IF r = 0 THEN RATE_LIMIT_SELENIUM ELSE 0

NavDelay(r) == RATE_LIMIT_SELENIUM

\* an exception leaves the try block of the current frame
ToHandler == pc' = "sel_except" /\ raised' = TRUE

\* line 310: driver = init_selenium_driver()
SelInit ==
    /\ pc = "sel_init"
    /\ \/ /\ DRIVER # 0
          /\ pc' = "sel_sleep"
          /\ UNCHANGED <<DRIVER, created, raised>>
       \/ /\ DRIVER = 0
          /\ InitOk
          /\ pc' = "sel_sleep"
          /\ UNCHANGED raised
       \/ /\ DRIVER = 0
          /\ InitFailEarly
          /\ ToHandler
       \/ /\ DRIVER = 0
          /\ InitFailLate
          /\ ToHandler
    /\ UNCHANGED <<usedBefore, caller, url, force_selenium, retry_count, retval, quitted, lastSleep,
                   reqs, navs, checks, allChallenged, reqResult>>
    /\ UNCHANGED <<mainVars, pureVars>>

\* line 312: time.sleep(RATE_LIMIT_SELENIUM)
SelSleep ==
    /\ pc = "sel_sleep"
    /\ lastSleep' = NavDelay(retry_count)
    /\ pc' = "sel_get"
    /\ UNCHANGED <<usedBefore, caller, url, force_selenium, retry_count, retval, DRIVER, created,
                   quitted, reqs, navs, checks, allChallenged, raised, reqResult>>
    /\ UNCHANGED <<mainVars, pureVars>>

\* lines 314-316: driver.get(url); time.sleep(3)
SelGet ==
    /\ pc = "sel_get"
    /\ navs' = navs + 1
    /\ \/ pc' = "sel_check1" /\ lastSleep' = SETTLE_WAIT /\ UNCHANGED raised
       \/ ToHandler /\ lastSleep' = 0
    /\ UNCHANGED <<usedBefore, caller, url, force_selenium, retry_count, retval, DRIVER, created,
                   quitted, reqs, checks, allChallenged, reqResult>>
    /\ UNCHANGED <<mainVars, pureVars>>

\* lines 318-320: first challenge check, then the Cloudflare wait
SelCheck1 ==
    /\ pc = "sel_check1"
    /\ \/ \E src \in PageSources :
            /\ checks' = checks + 1
            /\ IF is_cloudflare_challenge(src)
               THEN /\ lastSleep' = CLOUDFLARE_WAIT
                    /\ pc' = "sel_check2"
                    /\ UNCHANGED allChallenged
               ELSE /\ pc' = "sel_body"
                    /\ allChallenged' = FALSE
                    /\ UNCHANGED lastSleep
            /\ UNCHANGED raised
       \/ ToHandler /\ UNCHANGED <<checks, allChallenged, lastSleep>>
    /\ UNCHANGED <<usedBefore, caller, url, force_selenium, retry_count, retval, DRIVER, created,
                   quitted, reqs, navs, reqResult>>
    /\ UNCHANGED <<mainVars, pureVars>>

\* lines 322-330: second check; retry by self-call or give up
SelCheck2 ==
    /\ pc = "sel_check2"
    /\ \/ \E src \in PageSources :
            /\ checks' = checks + 1
            /\ IF is_cloudflare_challenge(src)
               THEN IF RetryAllowed(retry_count)
                    THEN /\ lastSleep' = RETRY_WAIT
                         /\ retry_count' = retry_count + 1
                         /\ pc' = "sel_init"
                         /\ UNCHANGED <<retval, allChallenged>>
                    ELSE /\ retval' = None
                         /\ pc' = "fetch_ret"
                         /\ UNCHANGED <<lastSleep, retry_count, allChallenged>>
               ELSE /\ pc' = "sel_body"
                    /\ allChallenged' = FALSE
                    /\ UNCHANGED <<lastSleep, retry_count, retval>>
            /\ UNCHANGED raised
       \/ ToHandler /\ UNCHANGED <<checks, allChallenged, lastSleep, retry_count, retval>>
    /\ UNCHANGED <<usedBefore, caller, url, force_selenium, DRIVER, created, quitted, reqs, navs,
                   reqResult>>
    /\ UNCHANGED <<mainVars, pureVars>>

\* lines 332-345: wait for body (its failure is swallowed), read the page,
\* last challenge check
SelBody ==
    /\ pc = "sel_body"
    /\ \/ \E html \in PageSources :
            /\ checks' = checks + 1
            /\ retval' = IF is_cloudflare_challenge(html) THEN None ELSE html
            /\ allChallenged' = (allChallenged /\ is_cloudflare_challenge(html))
            /\ pc' = "fetch_ret"
            /\ UNCHANGED raised
       \/ ToHandler /\ UNCHANGED <<checks, allChallenged, retval>>
    /\ UNCHANGED <<usedBefore, caller, url, force_selenium, retry_count, DRIVER, created, quitted,
                   lastSleep, reqs, navs, reqResult>>
    /\ UNCHANGED <<mainVars, pureVars>>

\* lines 347-349 and 114-115: except branch, reset_selenium_driver closes the
\* session and sleeps
SelExcept ==
    /\ pc = "sel_except"
    /\ quitted' = close_selenium_driver(DRIVER, quitted)
    /\ DRIVER' = 0
    /\ lastSleep' = RESET_WAIT
    /\ pc' = "sel_reinit"
    /\ UNCHANGED <<usedBefore, caller, url, force_selenium, retry_count, retval, created,
                   reqs, navs,
                   checks, allChallenged, raised, reqResult>>
    /\ UNCHANGED <<mainVars, pureVars>>

\* lines 116 and 350: reset_selenium_driver re-creates the session, then the
\* frame returns None; a failure of init leaves the frame as an exception,
\* into the except branch of the calling frame if there is one
SelReinit ==
    /\ pc = "sel_reinit"
    /\ \/ /\ InitOk
          /\ retval' = None
          /\ pc' = "fetch_ret"
          /\ UNCHANGED retry_count
       \/ /\ (InitFailEarly \/ InitFailLate)
          /\ IF retry_count > 0
             THEN pc' = "sel_except" /\ retry_count' = retry_count - 1
             ELSE pc' = "fetch_raise" /\ UNCHANGED retry_count
          /\ UNCHANGED retval
    /\ UNCHANGED <<usedBefore, caller, url, force_selenium, quitted, lastSleep, reqs, navs, checks,
                   allChallenged, raised, reqResult>>
    /\ UNCHANGED <<mainVars, pureVars>>

(***************************************************************************)
(* fetch_with_requests and fetch                                           *)
(***************************************************************************)
\* line 365: the routing test
RoutedToSelenium(u, force) == Contains(u, <<"journals.lww.com">>) \/ force

\* line 369: the lightweight result is good enough
LightweightOkNoCheck(html) == Truthy(html)

LightweightOk(html) == Truthy(html) /\ ~is_cloudflare_challenge(html)

\* lines 365-366
FetchEntry ==
    /\ pc = "fetch"
    /\ pc' = IF RoutedToSelenium(url, force_selenium) THEN "sel_init" ELSE "req_sleep"
    /\ UNCHANGED <<usedBefore, caller, url, force_selenium, retry_count, retval, DRIVER, created,
                   quitted, lastSleep, reqs, navs, checks, allChallenged, raised,
                   reqResult>>
    /\ UNCHANGED <<mainVars, pureVars>>

\* line 355: time.sleep(RATE_LIMIT_REQUESTS)
ReqSleep ==
    /\ pc = "req_sleep"
    /\ lastSleep' = RATE_LIMIT_REQUESTS
    /\ pc' = "req_get"
    /\ UNCHANGED <<usedBefore, caller, url, force_selenium, retry_count, retval, DRIVER, created,
                   quitted, reqs, navs, checks, allChallenged, raised, reqResult>>
    /\ UNCHANGED <<mainVars, pureVars>>

\* lines 356-361 and 368-373: the GET, then return or fall back
ReqGet ==
    /\ pc = "req_get"
    /\ reqs' = reqs + 1
    /\ lastSleep' = 0
    /\ \E html \in RequestResults :
         /\ reqResult' = html
         /\ IF LightweightOk(html)
            THEN retval' = html /\ pc' = "fetch_ret"
            ELSE pc' = "sel_init" /\ UNCHANGED retval
    /\ UNCHANGED <<usedBefore, caller, url, force_selenium, retry_count, DRIVER, created, quitted,
                   navs, checks, allChallenged, raised>>
    /\ UNCHANGED <<mainVars, pureVars>>

\* a caller enters fetch(u, force)
CallFetch(who, u, force) ==
    /\ pc' = "fetch"
    /\ caller' = who
    /\ url' = u
    /\ force_selenium' = force
    /\ retry_count' = 0
    /\ retval' = None
    /\ reqs' = 0
    /\ navs' = 0
    /\ checks' = 0
    /\ allChallenged' = TRUE
    /\ raised' = FALSE
    /\ reqResult' = NotCalled
    /\ usedBefore' = (usedBefore \/ navs > 0 \/ raised)
    /\ UNCHANGED <<DRIVER, created, quitted, lastSleep>>

(***************************************************************************)
(* Link filter                                                             *)
(***************************************************************************)
REJECT_PATTERNS ==
    { <<"/", "forums">>, <<"/", "home">>, <<"/", "about">>, <<"/", "contact">>,
      <<"/", "subscribe">>, <<"facebook.com">>, <<"twitter.com">>, <<"linkedin.com">>,
      <<"youtube.com">> }

JOURNAL_DOMAINS == { <<"journals.lww.com">>, <<"doi.org">>, <<"pubmed">> }

\* lines 459-461: the descendant test on the two paths
PathUnder(url_path, base_path) == url_path # base_path /\ StartsWith(url_path, base_path)

is_valid_content_link(u, base_url) ==
    IF u = <<>> \/ u = base_url THEN FALSE
    ELSE IF \E p \in REJECT_PATTERNS : Contains(Lower(u), p) THEN FALSE
    ELSE IF \E d \in JOURNAL_DOMAINS : Contains(Netloc(u), d) THEN TRUE
    ELSE IF EndsWith(u, <<".pdf">>) \/ Contains(u, <<"/", "sites/default/files", "/">>)
         THEN TRUE
    ELSE IF /\ Contains(Netloc(u), <<"aasld.org">>)
            /\ Contains(u, <<"/", "practice-guidelines", "/">>)
            /\ PathUnder(RStrip(UrlPath(u), "/"), RStrip(UrlPath(base_url), "/"))
         THEN TRUE
    ELSE FALSE

(***************************************************************************)
(* main                                                                    *)
(***************************************************************************)
\* list(dict.fromkeys(s))
RECURSIVE Dedup(_)
Dedup(s) ==
    IF s = <<>> THEN <<>>
    ELSE LET front == Dedup(SubSeq(s, 1, Len(s) - 1))
             x == s[Len(s)]
         IN  IF \E i \in 1..Len(front) : front[i] = x THEN front ELSE Append(front, x)

NoDup(s) == \A i, j \in 1..Len(s) : s[i] = s[j] => i = j

SeqsUpTo(S, n) == UNION { [1..k -> S] : k \in 0..n }

\* what the root page can list: category pages, deduplicated (line 405)
PageUrls == {PageA, PageB}
PageSeqs == { s \in SeqsUpTo(PageUrls, MaxPages) : NoDup(s) }

\* what a category page can yield: links that pass the filter, deduplicated
\* (line 486)
LinkUrls == {LinkHtml, LinkLww, LinkPdf, LinkRef}
PageLinkSeqs(page) ==
    { s \in SeqsUpTo({l \in LinkUrls : is_valid_content_link(l, page)}, MaxPageLinks) :
        NoDup(s) }

\* len(extracted_data["full_text"]) for a page of the model
FullTextLength(html) ==
    IF Contains(html, <<"long-text">>) THEN 400
    ELSE IF Contains(html, <<"short-text">>) THEN 40
    ELSE 0

\* lines 132-133: the hex digest that names the artifacts of a URL
sha256_hash(s) == <<"sha256", s>>

\* a file of a directory: the stem and what follows it
FileName(stem, suffix) == [stem |-> stem, suffix |-> suffix]

\* lines 599-635: the files save_complete_data writes, in order; the tables
\* file only when the page has tables
save_complete_data(u, tables) ==
    << [dir |-> "json", name |-> FileName(sha256_hash(u), ".json")],
       [dir |-> "text_content", name |-> FileName(sha256_hash(u), ".txt")],
       [dir |-> "text_content", name |-> FileName(sha256_hash(u), "_sections.json")] >>
    \o (IF tables
        THEN << [dir |-> "text_content", name |-> FileName(sha256_hash(u), "_tables.json")] >>
        ELSE <<>>)

\* lines 274-301: the files save_pdf_data writes, in order
save_pdf_data(u) ==
    << [dir |-> "json", name |-> FileName(sha256_hash(u), ".json")],
       [dir |-> "text_content", name |-> FileName(sha256_hash(u), ".txt")] >>

\* a directory after the first n of the writes: the stems with a file in it
WriteFiles(directory, dir, writes, n) ==
    directory \cup { writes[k].name.stem : k \in { j \in 1..n : writes[j].dir = dir } }

Bump(st, field) == [st EXCEPT ![field] = @ + 1]

Result(u, status, type) == [url |-> u, status |-> status, type |-> type]

\* line 653: get_disease_links starts by fetching the root page
MainStart ==
    /\ pc = "main"
    /\ CallFetch("disease", MAIN_URL, FALSE)
    /\ UNCHANGED mainVars
    /\ UNCHANGED pureVars

\* lines 382-409 and 655-657: the category pages, or the early return
GetDiseaseLinks ==
    /\ pc = "fetch_ret" /\ caller = "disease"
    /\ \E pages \in PageSeqs :
         /\ disease_pages' = IF Truthy(retval) THEN pages ELSE <<>>
         /\ IF disease_pages' = <<>>
            THEN pc' = "finally" /\ exitKind' = "early"
            ELSE pc' = "stage2" /\ UNCHANGED exitKind
    /\ pageIdx' = 1
    /\ UNCHANGED <<usedBefore, caller, url, force_selenium, retry_count, retval, DRIVER, created,
                   quitted, lastSleep, reqs, navs, checks, allChallenged, raised,
                   reqResult>>
    /\ UNCHANGED <<PDF_SUPPORT, all_links, unique_links, idx, results, stats, abortCause,
                   heldAtFinally, diskVars>>
    /\ UNCHANGED pureVars

\* lines 661-664 and 468: the next category page is fetched
Stage2Fetch ==
    /\ pc = "stage2"
    /\ pageIdx <= Len(disease_pages)
    /\ CallFetch("links", disease_pages[pageIdx], FALSE)
    /\ UNCHANGED mainVars
    /\ UNCHANGED pureVars

\* lines 469-489 and 665-666: the links of that page are added
Stage2Links ==
    /\ pc = "fetch_ret" /\ caller = "links"
    /\ \E links \in PageLinkSeqs(url) :
         all_links' = all_links \o (IF Truthy(retval) THEN links ELSE <<>>)
    /\ pageIdx' = pageIdx + 1
    /\ pc' = "stage2"
    /\ UNCHANGED <<usedBefore, caller, url, force_selenium, retry_count, retval, DRIVER, created,
                   quitted, lastSleep, reqs, navs, checks, allChallenged, raised,
                   reqResult>>
    /\ UNCHANGED <<PDF_SUPPORT, disease_pages, unique_links, idx, results, stats,
                   exitKind, abortCause, heldAtFinally, diskVars>>
    /\ UNCHANGED pureVars

\* lines 669-687: the frontier is deduplicated and Stage 3 begins
Stage2Done ==
    /\ pc = "stage2"
    /\ pageIdx > Len(disease_pages)
    /\ unique_links' = Dedup(all_links)
    /\ idx' = 1
    /\ pc' = "loop"
    /\ UNCHANGED <<usedBefore, caller, url, force_selenium, retry_count, retval, DRIVER, created,
                   quitted, lastSleep, reqs, navs, checks, allChallenged, raised,
                   reqResult>>
    /\ UNCHANGED <<PDF_SUPPORT, disease_pages, pageIdx, all_links, results, stats,
                   exitKind, abortCause, heldAtFinally, diskVars>>
    /\ UNCHANGED pureVars

\* lines 693-719: a PDF link
LoopPdf ==
    /\ pc = "loop"
    /\ idx <= Len(unique_links)
    /\ EndsWith(unique_links[idx], <<".pdf">>)
    /\ LET u == unique_links[idx] IN
       IF ~PDF_SUPPORT
       THEN /\ stats' = Bump(stats, "pdf_failed")
            /\ idx' = idx + 1
            /\ pc' = "loop"
            /\ UNCHANGED <<results, exitKind, abortCause, json_dir, text_dir>>
       ELSE \E outcome \in {"no_data", "saved", "save_raises"} :
              CASE outcome = "no_data" ->
                     /\ stats' = Bump(Bump(stats, "pdf_failed"), "failed")
                     /\ results' = Append(results, Result(u, "failed", "pdf"))
                     /\ idx' = idx + 1
                     /\ pc' = "loop"
                     /\ UNCHANGED <<exitKind, abortCause, json_dir, text_dir>>
                [] outcome = "saved" ->
                     /\ json_dir' = WriteFiles(json_dir, "json", save_pdf_data(u), 2)
                     /\ text_dir' = WriteFiles(text_dir, "text_content", save_pdf_data(u), 2)
                     /\ stats' = Bump(Bump(stats, "pdf_success"), "success")
                     /\ results' = Append(results, Result(u, "success", "pdf"))
                     /\ idx' = idx + 1
                     /\ pc' = "loop"
                     /\ UNCHANGED <<exitKind, abortCause>>
                [] outcome = "save_raises" ->
                     /\ \E n \in 0..Len(save_pdf_data(u)) :
                          /\ json_dir' = WriteFiles(json_dir, "json", save_pdf_data(u), n)
                          /\ text_dir' =
                                WriteFiles(text_dir, "text_content", save_pdf_data(u), n)
                     /\ pc' = "finally"
                     /\ exitKind' = "exception"
                     /\ abortCause' = "save_pdf_data"
                     /\ UNCHANGED <<stats, results, idx>>
    /\ UNCHANGED <<usedBefore, caller, url, force_selenium, retry_count, retval, DRIVER, created,
                   quitted, lastSleep, reqs, navs, checks, allChallenged, raised,
                   reqResult>>
    /\ UNCHANGED <<PDF_SUPPORT, disease_pages, pageIdx, all_links, unique_links,
                   heldAtFinally, results_file>>
    /\ UNCHANGED pureVars

\* line 722: an HTML link is fetched
LoopFetch ==
    /\ pc = "loop"
    /\ idx <= Len(unique_links)
    /\ ~EndsWith(unique_links[idx], <<".pdf">>)
    /\ CallFetch("loop", unique_links[idx], FALSE)
    /\ UNCHANGED mainVars
    /\ UNCHANGED pureVars

\* lines 724-761: the fetched page is classified, extracted and saved
LoopHtml ==
    /\ pc = "fetch_ret" /\ caller = "loop"
    /\ LET u == unique_links[idx] IN
       IF ~Truthy(retval)
       THEN /\ stats' = Bump(stats, "failed")
            /\ results' = Append(results, Result(u, "failed", "html"))
            /\ UNCHANGED <<json_dir, text_dir>>
       ELSE IF is_cloudflare_challenge(retval)
       THEN /\ stats' = Bump(stats, "blocked")
            /\ results' = Append(results, Result(u, "blocked", "html"))
            /\ UNCHANGED <<json_dir, text_dir>>
       ELSE \E outcome \in {"ok", "extract_raises", "save_raises"}, tables \in BOOLEAN :
              LET writes == save_complete_data(u, tables) IN
              IF outcome = "extract_raises"
              THEN /\ stats' = Bump(stats, "failed")
                   /\ results' = Append(results, Result(u, "error", "html"))
                   /\ UNCHANGED <<json_dir, text_dir>>
              ELSE IF FullTextLength(retval) < MIN_TEXT_LENGTH
              THEN /\ stats' = Bump(stats, "insufficient")
                   /\ results' = Append(results, Result(u, "insufficient", "html"))
                   /\ UNCHANGED <<json_dir, text_dir>>
              ELSE IF outcome = "save_raises"
              THEN /\ \E n \in 0..Len(writes) :
                        /\ json_dir' = WriteFiles(json_dir, "json", writes, n)
                        /\ text_dir' = WriteFiles(text_dir, "text_content", writes, n)
                   /\ stats' = Bump(stats, "failed")
                   /\ results' = Append(results, Result(u, "error", "html"))
              ELSE /\ json_dir' = WriteFiles(json_dir, "json", writes, Len(writes))
                   /\ text_dir' = WriteFiles(text_dir, "text_content", writes, Len(writes))
                   /\ stats' = Bump(stats, "success")
                   /\ results' = Append(results, Result(u, "success", "html"))
    /\ idx' = idx + 1
    /\ pc' = "loop"
    /\ UNCHANGED <<usedBefore, caller, url, force_selenium, retry_count, retval, DRIVER, created,
                   quitted, lastSleep, reqs, navs, checks, allChallenged, raised,
                   reqResult>>
    /\ UNCHANGED <<PDF_SUPPORT, disease_pages, pageIdx, all_links, unique_links,
                   exitKind, abortCause, heldAtFinally, results_file>>
    /\ UNCHANGED pureVars

\* lines 763-785: the results are written, then the summary; line 778 divides
\* by stats['total']
Summary ==
    /\ pc = "loop"
    /\ idx > Len(unique_links)
    /\ results_file' = [written |-> TRUE, content |-> results]
    /\ pc' = "finally"
    /\ IF Len(unique_links) = 0
       THEN exitKind' = "exception" /\ abortCause' = "ZeroDivisionError"
       ELSE exitKind' = "normal" /\ UNCHANGED abortCause
    /\ UNCHANGED <<usedBefore, caller, url, force_selenium, retry_count, retval, DRIVER, created,
                   quitted, lastSleep, reqs, navs, checks, allChallenged, raised,
                   reqResult>>
    /\ UNCHANGED <<PDF_SUPPORT, disease_pages, pageIdx, all_links, unique_links, idx,
                   results, stats, heldAtFinally, json_dir, text_dir>>
    /\ UNCHANGED pureVars

\* an exception of reset_selenium_driver leaves fetch and then main's try block
FetchRaises ==
    /\ pc = "fetch_raise" /\ caller # "api"
    /\ pc' = "finally"
    /\ exitKind' = "exception"
    /\ abortCause' = "init_selenium_driver"
    /\ UNCHANGED <<usedBefore, caller, url, force_selenium, retry_count, retval, DRIVER, created,
                   quitted, lastSleep, reqs, navs, checks, allChallenged, raised,
                   reqResult>>
    /\ UNCHANGED <<PDF_SUPPORT, disease_pages, pageIdx, all_links, unique_links, idx,
                   results, stats, heldAtFinally, diskVars>>
    /\ UNCHANGED pureVars

\* lines 787-788: finally: close_selenium_driver()
Finally ==
    /\ pc = "finally"
    /\ heldAtFinally' = DRIVER
    /\ quitted' = close_selenium_driver(DRIVER, quitted)
    /\ DRIVER' = 0
    /\ pc' = "exited"
    /\ UNCHANGED <<usedBefore, caller, url, force_selenium, retry_count, retval, created, lastSleep,
                   reqs, navs, checks, allChallenged, raised, reqResult>>
    /\ UNCHANGED <<PDF_SUPPORT, disease_pages, pageIdx, all_links, unique_links, idx,
                   results, stats, exitKind, abortCause, diskVars>>
    /\ UNCHANGED pureVars

ZeroStats ==
    [success |-> 0, failed |-> 0, blocked |-> 0, pdf_success |-> 0, pdf_failed |-> 0,
     insufficient |-> 0]

InitFetchVars ==
    /\ caller = "none"
    /\ url = <<>>
    /\ force_selenium = FALSE
    /\ retry_count = 0
    /\ retval = None
    /\ DRIVER = 0
    /\ created = 0
    /\ quitted = {}
    /\ lastSleep = 0
    /\ reqs = 0
    /\ navs = 0
    /\ checks = 0
    /\ allChallenged = TRUE
    /\ raised = FALSE
    /\ reqResult = NotCalled
    /\ usedBefore = FALSE

\* lines 46-53: the directories of a fresh run
InitDisk ==
    /\ results_file = [written |-> FALSE, content |-> <<>>]
    /\ json_dir = {}
    /\ text_dir = {}

InitMainVars ==
    /\ disease_pages = <<>>
    /\ pageIdx = 1
    /\ all_links = <<>>
    /\ unique_links = <<>>
    /\ idx = 1
    /\ results = <<>>
    /\ stats = ZeroStats
    /\ exitKind = "running"
    /\ abortCause = "none"
    /\ heldAtFinally = 0
    /\ InitDisk

InitFnVars ==
    /\ collected_links = <<>>
    /\ arg = <<>>
    /\ ret = None

InitPureVars ==
    /\ link_url = <<>>
    /\ link_base = <<>>
    /\ link_valid = FALSE
    /\ soup = <<>>
    /\ heading = 0
    /\ section_links = <<>>
    /\ InitFnVars

Init ==
    /\ pc = "main"
    /\ PDF_SUPPORT \in BOOLEAN
    /\ InitFetchVars
    /\ InitMainVars
    /\ InitPureVars

Next ==
    \/ MainStart \/ GetDiseaseLinks \/ Stage2Fetch \/ Stage2Links \/ Stage2Done
    \/ LoopPdf \/ LoopFetch \/ LoopHtml \/ Summary \/ FetchRaises \/ Finally
    \/ FetchEntry \/ ReqSleep \/ ReqGet
    \/ SelInit \/ SelSleep \/ SelGet \/ SelCheck1 \/ SelCheck2 \/ SelBody
    \/ SelExcept \/ SelReinit

Spec == Init /\ [][Next]_vars

(***************************************************************************)
(* fetch called on its own, with any URL and either value of force_selenium *)
(***************************************************************************)
FetchUrls == {MAIN_URL, LinkHtml, LinkLww, LinkRef}

ApiCall ==
    /\ pc = "idle"
    /\ \E u \in FetchUrls, force \in BOOLEAN : CallFetch("api", u, force)
    /\ UNCHANGED mainVars
    /\ UNCHANGED pureVars

ApiReturn ==
    /\ pc \in {"fetch_ret", "fetch_raise"} /\ caller = "api"
    /\ pc' = "idle"
    /\ UNCHANGED <<usedBefore, caller, url, force_selenium, retry_count, retval, DRIVER, created,
                   quitted, lastSleep, reqs, navs, checks, allChallenged, raised,
                   reqResult>>
    /\ UNCHANGED mainVars
    /\ UNCHANGED pureVars

InitFetch ==
    /\ pc = "idle"
    /\ PDF_SUPPORT = TRUE
    /\ InitFetchVars
    /\ InitMainVars
    /\ InitPureVars

NextFetch ==
    \/ ApiCall \/ ApiReturn
    \/ FetchEntry \/ ReqSleep \/ ReqGet
    \/ SelInit \/ SelSleep \/ SelGet \/ SelCheck1 \/ SelCheck2 \/ SelBody
    \/ SelExcept \/ SelReinit

SpecFetch == InitFetch /\ [][NextFetch]_vars

(***************************************************************************)
(* is_valid_content_link called on its own                                 *)
(***************************************************************************)
Hosts ==
    { <<"www.", "aasld.org">>, <<"journals.lww.com">>, <<"doi.org">>,
      <<"pubmed", ".ncbi.nlm.nih.gov">>, <<"www.", "Facebook.com">>, <<"example.com">> }

Paths ==
    { <<>>,
      <<"/", "practice-guidelines", "/", "hep-b">>,
      <<"/", "practice-guidelines", "/", "hep-b", "/">>,
      <<"/", "practice-guidelines", "/", "hep-b", "/", "guidance">>,
      <<"/", "practice-guidelines", "/", "hep-b", "-old">>,
      <<"/", "practice-guidelines", "/", "hep-c", "/", "guidance">>,
      <<"/", "About">>,
      <<"/", "sites/default/files", "/", "doc", ".pdf">>,
      <<"/", "sites/default/files", "/", "doc", ".docx">>,
      <<"/", "doc", ".pdf">>,
      <<"/", "doc">> }

Queries == { <<>>, <<"?", "page=", "2">>, <<"#", "top">> }

\* hrefs after urljoin
RawUrls == { <<"https://">> \o h \o p \o q : h \in Hosts, p \in Paths, q \in Queries }

\* lines 484-486: the link is canonicalised, then tested against the page URL
InitValid ==
    /\ pc = "valid"
    /\ PDF_SUPPORT = TRUE
    /\ InitFetchVars
    /\ InitMainVars
    /\ \E raw \in RawUrls : link_url = clean_url(raw)
    /\ link_base \in PageUrls
    /\ link_valid = FALSE
    /\ soup = <<>>
    /\ heading = 0
    /\ section_links = <<>>
    /\ InitFnVars

CheckLink ==
    /\ pc = "valid"
    /\ pc' = "valid_done"
    /\ link_valid' = is_valid_content_link(link_url, link_base)
    /\ UNCHANGED <<link_url, link_base, soup, heading, section_links, fnVars>>
    /\ UNCHANGED <<usedBefore, caller, url, force_selenium, retry_count, retval, DRIVER,
                   created, quitted, lastSleep, reqs, navs, checks, allChallenged, raised,
                   reqResult>>
    /\ UNCHANGED mainVars

NextValid == CheckLink

SpecValid == InitValid /\ [][NextValid]_vars

(***************************************************************************)
(* Stage 2 discovery: the section that follows a heading                   *)
(***************************************************************************)
MaxTop == 2
MaxKids == 2

HEADING_TAGS == {"h1", "h2", "h3", "h4", "h5", "h6"}

heading_level(tag_name) ==
    CASE tag_name = "h1" -> 1
      [] tag_name = "h2" -> 2
      [] tag_name = "h3" -> 3
      [] tag_name = "h4" -> 4
      [] tag_name = "h5" -> 5
      [] tag_name = "h6" -> 6
      [] OTHER -> 7

\* normalize_text lower-cases; the model's texts have no extra white space
normalize_text(txt) == Lower(txt)

match_target_heading(txt) ==
    LET t == normalize_text(txt) IN
    \/ (Contains(t, <<"practice">>) /\ Contains(t, <<"guid">>))
    \/ (Contains(t, <<"supplement">>) /\ Contains(t, <<"material">>))

\* Elements of a page: headings and anchors are leaves, a div holds leaves.
Leaf(tag, text) == [tag |-> tag, text |-> text, href |-> <<>>, kids |-> <<>>]

\* <a href="...">
Anchor(href) == [tag |-> "a", text |-> <<>>, href |-> href, kids |-> <<>>]

Leaves ==
    { Leaf("h2", <<"Practice", " ", "Guid", "ance">>),
      Leaf("h2", <<"Related", " ", "Material", "s">>),
      Leaf("h3", <<"Related", " ", "Material", "s">>),
      Anchor(LinkHtml) }

Divs ==
    { [tag |-> "div", text |-> <<>>, href |-> <<>>, kids |-> k] :
        k \in SeqsUpTo(Leaves, MaxKids) }

Pages == SeqsUpTo(Leaves \cup Divs, MaxTop)

\* The elements of a page in document order (the order of next_elements and
\* find_all), each with the position of the last element of its subtree.
RECURSIVE Flatten(_, _)
Flatten(nodes, offset) ==
    IF nodes = <<>> THEN <<>>
    ELSE LET n == Head(nodes)
             size == 1 + Len(n.kids)
             here == <<[tag |-> n.tag, text |-> n.text, href |-> n.href,
                        last |-> offset + size]>>
             below == [i \in 1..Len(n.kids) |->
                         [tag |-> n.kids[i].tag, text |-> n.kids[i].text,
                          href |-> n.kids[i].href, last |-> offset + 1 + i]]
         IN  here \o below \o Flatten(Tail(nodes), offset + size)

Elements(page) == Flatten(page, 0)

\* lines 431-433: the walk stops at this element
StopsWalk(el, cur_level) ==
    el.tag \in HEADING_TAGS /\ heading_level(el.tag) <= cur_level

\* lines 425-438: positions of the elements whose str() is appended to parts
RECURSIVE WalkParts(_, _, _)
WalkParts(els, i, cur_level) ==
    IF i > Len(els) THEN <<>>
    ELSE IF StopsWalk(els[i], cur_level) THEN <<>>
    ELSE <<i>> \o WalkParts(els, i + 1, cur_level)

\* anchors in the serialisation of the element at position i: str(el) holds
\* the whole subtree of el
RECURSIVE AnchorsIn(_, _, _)
AnchorsIn(els, i, last) ==
    IF i > last THEN <<>>
    ELSE (IF els[i].tag = "a" THEN <<i>> ELSE <<>>) \o AnchorsIn(els, i + 1, last)

RECURSIVE AnchorsOfParts(_, _)
AnchorsOfParts(els, parts) ==
    IF parts = <<>> THEN <<>>
    ELSE AnchorsIn(els, Head(parts), els[Head(parts)].last)
            \o AnchorsOfParts(els, Tail(parts))

\* lines 419-440 and 479: section.find_all("a") for the heading at position h
extract_section_using_next_elements(els, h) ==
    AnchorsOfParts(els, WalkParts(els, h + 1, heading_level(els[h].tag)))

\* line 475-476: the next heading after position h that matches, 0 if none
NextTarget(els, h) ==
    LET T == { i \in (h + 1)..Len(els) :
                 els[i].tag \in HEADING_TAGS /\ match_target_heading(els[i].text) }
    IN  IF T = {} THEN 0 ELSE CHOOSE i \in T : \A j \in T : i <= j

InitSection ==
    /\ pc = "section"
    /\ PDF_SUPPORT = TRUE
    /\ InitFetchVars
    /\ InitMainVars
    /\ link_url = <<>>
    /\ link_base = <<>>
    /\ link_valid = FALSE
    /\ soup \in Pages
    /\ heading = 0
    /\ section_links = <<>>
    /\ InitFnVars

\* lines 475-479: the loop reaches the next target heading
ExtractSection ==
    /\ pc = "section"
    /\ NextTarget(Elements(soup), heading) # 0
    /\ heading' = NextTarget(Elements(soup), heading)
    /\ section_links' = extract_section_using_next_elements(Elements(soup), heading')
    /\ UNCHANGED <<link_url, link_base, link_valid, soup, fnVars>>
    /\ UNCHANGED <<fetchVars, mainVars>>

NextSection == ExtractSection

SpecSection == InitSection /\ [][NextSection]_vars

(***************************************************************************)
(* Properties of the transport client                                      *)
(***************************************************************************)
\* fetch_with_selenium was entered by the running fetch: its first statement
\* either raises or is followed by a navigation
SelCalled == navs > 0 \/ raised

SelPcs == {"sel_init", "sel_sleep", "sel_get", "sel_check1", "sel_check2", "sel_body",
           "sel_except", "sel_reinit"}

\* C1: a call of fetch_with_selenium never navigates more than twice, and a
\* call that found the challenge at every check and met no exception made
\* exactly two navigations (four checks) and returned None.
C1_TwoNavigations ==
    /\ navs <= 2
    /\ (pc = "fetch_ret" /\ checks > 0 /\ allChallenged /\ ~raised)
          => (navs = 2 /\ checks = 4 /\ retval = None)

C1_Witness ==
    pc = "fetch_ret" /\ allChallenged /\ ~raised /\ navs = 2 /\ checks = 4 /\ retval = None

\* C2: for a URL not routed directly to automation, the lightweight backend
\* is called first and once, fetch_with_selenium is entered exactly when the
\* lightweight result was None, empty or a challenge page, otherwise the
\* lightweight markup is returned; and whatever fetch returns is None or
\* markup that is not a challenge page.
C2_Escalation ==
    /\ (pc \in SelPcs /\ ~RoutedToSelenium(url, force_selenium)) => reqs = 1
    /\ (pc \in {"fetch_ret", "fetch_raise"} /\ ~RoutedToSelenium(url, force_selenium))
          => /\ reqs = 1
             /\ SelCalled <=> (reqResult = None \/ reqResult = <<>>
                                  \/ is_cloudflare_challenge(reqResult))
             /\ ~SelCalled => retval = reqResult
    /\ pc = "fetch_ret" => (retval = None \/ ~is_cloudflare_challenge(retval))

C2_Witness ==
    /\ pc = "fetch_ret"
    /\ ~RoutedToSelenium(url, force_selenium)
    /\ is_cloudflare_challenge(reqResult)
    /\ SelCalled
    /\ Truthy(retval)

\* the URL's host is the automation-required host
HostIsAutomation(u) == Contains(Netloc(u), <<"journals.lww.com">>)

\* C3: fetch goes straight to the automation backend, without a lightweight
\* GET, if the URL's host is the automation-required host or force_selenium
\* is set, and for every other URL the lightweight backend is called first.
C3_RoutingByHost ==
    (pc \in SelPcs \cup {"fetch_ret", "fetch_raise"})
       => IF HostIsAutomation(url) \/ force_selenium THEN reqs = 0 ELSE reqs = 1

\* C8: every lightweight GET directly follows the lightweight delay and every
\* navigation directly follows the automation delay.
C8_DelayBeforeRequest ==
    [][ /\ (navs' = navs + 1) => lastSleep = RATE_LIMIT_SELENIUM
        /\ (reqs' = reqs + 1) => lastSleep = RATE_LIMIT_REQUESTS ]_vars

C8_Witness == navs = 2 /\ reqs = 1 /\ pc = "sel_check1"

(***************************************************************************)
(* Properties of main and of the session                                   *)
(***************************************************************************)
\* the fetch of the loop's current URL ended because the challenge was still
\* there after the retry
ChallengePersisted ==
    caller = "loop" /\ checks = 4 /\ navs = 2 /\ allChallenged /\ ~raised

\* C4: an HTML URL whose challenge persisted through the automation backend's
\* retry has a result entry with status 'blocked', and the blocked counter
\* was incremented.
C4_BlockedRecorded ==
    (pc \in {"loop", "finally", "exited"} /\ ChallengePersisted)
       => /\ \E i \in 1..Len(results) :
               results[i].url = url /\ results[i].status = "blocked"
          /\ stats.blocked >= 1

\* C5: main ends abnormally only when the automation backend could not be set
\* up in the first fetch that uses it; otherwise every URL of the frontier is
\* processed.
C5_OnlyFirstUseSetupAborts ==
    /\ (pc = "exited" /\ exitKind = "exception")
          => (abortCause = "init_selenium_driver" /\ ~usedBefore)
    /\ (pc = "exited" /\ exitKind = "normal") => idx = Len(unique_links) + 1

\* C6: when main has exited, on whatever path, the global handle is None and
\* the session it referred to when the finally clause began has been quit.
C6_SessionReleased ==
    pc = "exited" => (DRIVER = 0 /\ (heldAtFinally # 0 => heldAtFinally \in quitted))

C6_Witness == pc = "exited" /\ heldAtFinally # 0 /\ exitKind = "exception"

\* C7: at most one session is created and not yet quit, and the handle is None
\* or refers to that session.
C7_SingleSession ==
    /\ Cardinality(Live) <= 1
    /\ (DRIVER = 0 \/ Live = {DRIVER})

(***************************************************************************)
(* Properties of link discovery                                            *)
(***************************************************************************)
\* position of the first heading after h whose level is <= that of h
SectionEnd(els, h) ==
    LET S == { i \in (h + 1)..Len(els) :
                 els[i].tag \in HEADING_TAGS
                 /\ heading_level(els[i].tag) <= heading_level(els[h].tag) }
    IN  IF S = {} THEN Len(els) + 1 ELSE CHOOSE i \in S : \A j \in S : i <= j

AnchorsBetween(els, h, e) == { i \in (h + 1)..(e - 1) : els[i].tag = "a" }

Range(s) == { s[i] : i \in 1..Len(s) }

\* C9: the anchors collected for a target heading are exactly the anchors that
\* lie after the heading and before the next heading of the same or a higher
\* level, whatever divs wrap them.
C9_SectionSpan ==
    heading # 0 =>
       Range(section_links)
          = AnchorsBetween(Elements(soup), heading, SectionEnd(Elements(soup), heading))

\* the path p lies strictly below the path q
StrictDescendant(p, q) == StartsWith(p, q \o <<"/">>) /\ Len(p) > Len(q) + 1

\* C10: a link is kept if and only if it differs from the page URL, matches no
\* reject pattern, and (a) its host is a journal host, or (b) its path ends in
\* .pdf or contains the file-storage segment, or (c) its host is the site's
\* and its path is a strict descendant of the page's path.
C10_KeepIff ==
    pc = "valid_done" =>
       (link_valid <=>
          /\ link_url # link_base
          /\ ~\E p \in REJECT_PATTERNS : Contains(Lower(link_url), p)
          /\ \/ \E d \in JOURNAL_DOMAINS : Contains(Netloc(link_url), d)
             \/ EndsWith(UrlPath(link_url), <<".pdf">>)
             \/ Contains(UrlPath(link_url), <<"/", "sites/default/files", "/">>)
             \/ /\ Contains(Netloc(link_url), <<"aasld.org">>)
                /\ StrictDescendant(RStrip(UrlPath(link_url), "/"),
                                    RStrip(UrlPath(link_base), "/")))

(***************************************************************************)
(* Stage 2 discovery: the links of the category pages                      *)
(***************************************************************************)
MaxPageEls == 4

\* the state of the transport client apart from pc
fetchRest == <<caller, url, force_selenium, retry_count, retval, DRIVER, created, quitted,
               lastSleep, reqs, navs, checks, allChallenged, raised, reqResult, usedBefore>>

\* index of the last occurrence of token c in s, 0 if there is none
LastIndexOf(s, c) ==
    IF \E i \in 1..Len(s) : s[i] = c
    THEN CHOOSE i \in 1..Len(s) : s[i] = c /\ \A j \in (i + 1)..Len(s) : s[j] # c
    ELSE 0

\* urllib.parse.urljoin: an absolute href stands, a href that begins with "/"
\* replaces the path of the base, any other href replaces its last segment
urljoin(base, href) ==
    IF StartsWith(href, <<"https://">>) THEN href
    ELSE IF StartsWith(href, <<"/">>) THEN <<"https://">> \o Netloc(base) \o href
    ELSE SubSeq(base, 1, LastIndexOf(base, "/")) \o href

InSeq(x, s) == \E i \in 1..Len(s) : s[i] = x

\* lines 479-487 without the membership test of line 486
RECURSIVE collect_links_all(_, _, _, _)
collect_links_all(els, page_url, anchors, collected) ==
    IF anchors = <<>> THEN collected
    ELSE LET href == els[Head(anchors)].href
             full_url == clean_url(urljoin(page_url, href))
             skip == href = <<>> \/ StartsWith(href, <<"#">>)
             keep == ~skip /\ is_valid_content_link(full_url, page_url)
         IN  collect_links_all(els, page_url, Tail(anchors),
                               IF keep THEN Append(collected, full_url) ELSE collected)

\* lines 479-487: the loop over the anchors of one section
RECURSIVE collect_links(_, _, _, _)
collect_links(els, page_url, anchors, collected) ==
    IF anchors = <<>> THEN collected
    ELSE LET href == els[Head(anchors)].href
             full_url == clean_url(urljoin(page_url, href))
             skip == href = <<>> \/ StartsWith(href, <<"#">>)
             keep == /\ ~skip
                     /\ is_valid_content_link(full_url, page_url)
                     /\ ~InSeq(full_url, collected)
         IN  collect_links(els, page_url, Tail(anchors),
                           IF keep THEN Append(collected, full_url) ELSE collected)

PracticeGuidance == Leaf("h2", <<"Practice", " ", "Guid", "ance">>)
HrefRooted == <<"/", "practice-guidelines", "/", "hep-b", "/", "guidance", "/">>
HrefFragment == LinkHtml \o <<"#", "top">>
HrefSocial == <<"https://", "www.", "Facebook.com", "/", "aasld">>
HrefTop == <<"#", "top">>

LinkLeaves ==
    { PracticeGuidance, Anchor(HrefRooted), Anchor(HrefFragment), Anchor(LinkLww),
      Anchor(HrefSocial), Anchor(HrefTop) }

\* category pages: a flat run of headings and anchors
LinkPages == SeqsUpTo(LinkLeaves, MaxPageEls)

InitLinks ==
    /\ pc = "links_fetch"
    /\ PDF_SUPPORT = TRUE
    /\ InitFetchVars
    /\ disease_pages \in { s \in PageSeqs : s # <<>> }
    /\ pageIdx = 1
    /\ all_links = <<>>
    /\ unique_links = <<>>
    /\ idx = 1
    /\ results = <<>>
    /\ stats = ZeroStats
    /\ exitKind = "running"
    /\ abortCause = "none"
    /\ heldAtFinally = 0
    /\ InitDisk
    /\ InitPureVars

\* lines 468-470: the page could not be fetched, the call returns []
LinksFetchFail ==
    /\ pc = "links_fetch"
    /\ pageIdx <= Len(disease_pages)
    /\ pageIdx' = pageIdx + 1
    /\ collected_links' = <<>>
    /\ UNCHANGED <<pc, fetchRest, PDF_SUPPORT, disease_pages, all_links, unique_links, idx,
                   results, stats, exitKind, abortCause, heldAtFinally, diskVars>>
    /\ UNCHANGED <<link_url, link_base, link_valid, soup, heading, section_links, arg, ret>>

\* lines 468-473: the page is fetched and parsed
LinksFetchOk ==
    /\ pc = "links_fetch"
    /\ pageIdx <= Len(disease_pages)
    /\ pc' = "links_heading"
    /\ link_base' = disease_pages[pageIdx]
    /\ soup' \in LinkPages
    /\ heading' = 0
    /\ section_links' = <<>>
    /\ collected_links' = <<>>
    /\ UNCHANGED <<fetchRest, mainVars>>
    /\ UNCHANGED <<link_url, link_valid, arg, ret>>

\* lines 475-487: the next target heading and the anchors of its section
LinksHeading ==
    /\ pc = "links_heading"
    /\ NextTarget(Elements(soup), heading) # 0
    /\ heading' = NextTarget(Elements(soup), heading)
    /\ section_links' = extract_section_using_next_elements(Elements(soup), heading')
    /\ collected_links' =
          collect_links(Elements(soup), link_base, section_links', collected_links)
    /\ UNCHANGED <<pc, fetchRest, mainVars>>
    /\ UNCHANGED <<link_url, link_base, link_valid, soup, arg, ret>>

\* lines 489 and 664-667: the list goes back to main, which extends all_links;
\* the parsed page is a local of the call
LinksReturn ==
    /\ pc = "links_heading"
    /\ NextTarget(Elements(soup), heading) = 0
    /\ pc' = "links_fetch"
    /\ all_links' = all_links \o collected_links
    /\ pageIdx' = pageIdx + 1
    /\ soup' = <<>>
    /\ heading' = 0
    /\ section_links' = <<>>
    /\ UNCHANGED <<fetchRest, PDF_SUPPORT, disease_pages, unique_links, idx, results, stats,
                   exitKind, abortCause, heldAtFinally, diskVars>>
    /\ UNCHANGED <<link_url, link_base, link_valid, fnVars>>

\* line 669: after the last page
LinksUnique ==
    /\ pc = "links_fetch"
    /\ pageIdx > Len(disease_pages)
    /\ pc' = "links_done"
    /\ unique_links' = Dedup(all_links)
    /\ UNCHANGED <<fetchRest, PDF_SUPPORT, disease_pages, pageIdx, all_links, idx, results,
                   stats, exitKind, abortCause, heldAtFinally, diskVars>>
    /\ UNCHANGED pureVars

NextLinks == LinksFetchFail \/ LinksFetchOk \/ LinksHeading \/ LinksReturn \/ LinksUnique

SpecLinks == InitLinks /\ [][NextLinks]_vars

(***************************************************************************)
(* Properties of link discovery                                            *)
(***************************************************************************)
\* list holds every element of seen once, in the order of first occurrence
OrderedSetOf(list, seen) ==
    /\ NoDup(list)
    /\ { list[i] : i \in 1..Len(list) } = { seen[i] : i \in 1..Len(seen) }
    /\ \A i, j \in 1..Len(list) : i < j => IndexOf(seen, list[i]) < IndexOf(seen, list[j])

\* the positions of the target headings up to position h, in document order
RECURSIVE TargetsUpTo(_, _, _)
TargetsUpTo(els, from, h) ==
    LET t == NextTarget(els, from)
    IN  IF t = 0 \/ t > h THEN <<>> ELSE <<t>> \o TargetsUpTo(els, t, h)

\* every accepted URL met in the sections of those headings, repeats included
RECURSIVE Discovered(_, _, _)
Discovered(els, page_url, targets) ==
    IF targets = <<>> THEN <<>>
    ELSE LET anchors == extract_section_using_next_elements(els, Head(targets))
             urls == [i \in 1..Len(anchors) |->
                        clean_url(urljoin(page_url, els[anchors[i]].href))]
             ok(i) == /\ ~StartsWith(els[anchors[i]].href, <<"#">>)
                      /\ is_valid_content_link(urls[i], page_url)
         IN  SelectSeq([i \in 1..Len(anchors) |-> <<urls[i], ok(i)>>],
                       LAMBDA p : p[2]) \o Discovered(els, page_url, Tail(targets))

FirstOf(pairs) == [i \in 1..Len(pairs) |-> pairs[i][1]]

C11_Example ==
    <<PracticeGuidance, Anchor(HrefRooted), Anchor(LinkLww), Anchor(HrefSocial)>>

\* C11: the per-page list and the global list hold no URL twice and keep every
\* URL at the place of its first discovery; the page with one heading
\* 'Practice Guidance', two valid links and a social-media link yields the two
\* valid links in page order.
C11_OrderedSet ==
    /\ pc = "links_heading" =>
          OrderedSetOf(collected_links,
                       FirstOf(Discovered(Elements(soup), link_base,
                                          TargetsUpTo(Elements(soup), 0, heading))))
    /\ pc = "links_done" => OrderedSetOf(unique_links, all_links)
    /\ (pc = "links_heading" /\ soup = C11_Example /\ link_base = PageA /\ heading = 1)
          => collected_links = <<LinkHtml, LinkLww>>

C11_Witness ==
    /\ pc = "links_done"
    /\ collected_links = <<LinkHtml, LinkLww>>
    /\ all_links = <<LinkLww, LinkHtml, LinkLww>>
    /\ unique_links = <<LinkLww, LinkHtml>>

(***************************************************************************)
(* Functions applied on their own: the argument is arg, the result is ret  *)
(***************************************************************************)
InitFn(start, inputs) ==
    /\ pc = start
    /\ PDF_SUPPORT = TRUE
    /\ InitFetchVars
    /\ InitMainVars
    /\ link_url = <<>>
    /\ link_base = <<>>
    /\ link_valid = FALSE
    /\ soup = <<>>
    /\ heading = 0
    /\ section_links = <<>>
    /\ collected_links = <<>>
    /\ arg \in inputs
    /\ ret = None

\* what a call of such a function leaves alone
FnFrame ==
    UNCHANGED <<fetchRest, mainVars, link_url, link_base, link_valid, soup, heading,
                section_links, collected_links, arg>>

(***************************************************************************)
(* HTML extraction: sections                                               *)
(***************************************************************************)
MaxEls == 4

\* len(text) of the element texts of the model
TextLen(text) ==
    CASE text = "" -> 0
      [] text = "FAQ" -> 3
      [] text = "Overview" -> 8
      [] OTHER -> 14

TextTags == {"h1", "h3", "h4", "p"}
Texts == {"", "FAQ", "Overview"}

\* line 505: what find_all returns, in document order, once script, style and
\* noscript are removed; each element with its get_text(strip=True)
TextDocs == SeqsUpTo([tag : TextTags, text : Texts], MaxEls)

\* lines 502-525; current is <<>> for None, else holds the open section.
\* The fields at and from record the positions of the heading and of the
\* elements that gave the content items.
RECURSIVE text_sections(_, _, _, _)
text_sections(els, i, sections, current) ==
    IF i > Len(els) THEN sections \o current
    ELSE LET text == els[i].text IN
         IF text = "" \/ TextLen(text) < 5
         THEN text_sections(els, i + 1, sections, current)
         ELSE IF els[i].tag \in {"h1", "h2", "h3"}
         THEN text_sections(els, i + 1, sections \o current,
                            <<[heading |-> text, level |-> heading_level(els[i].tag),
                               content |-> <<>>, at |-> i, from |-> <<>>]>>)
         ELSE IF current # <<>>
         THEN text_sections(els, i + 1, sections,
                            <<[current[1] EXCEPT !.content = Append(@, text),
                                                 !.from = Append(@, i)]>>)
         ELSE text_sections(els, i + 1, sections, current)

extract_all_text_with_structure(els) == text_sections(els, 1, <<>>, <<>>)

InitText == InitFn("text", TextDocs)

ExtractText ==
    /\ pc = "text"
    /\ pc' = "text_done"
    /\ ret' = extract_all_text_with_structure(arg)
    /\ FnFrame

NextText == ExtractText

SpecText == InitText /\ [][NextText]_vars

\* position of the first heading of level 1-3 after position i, Len(els)+1 if none
NextSectionHeading(els, i) ==
    LET H == { j \in (i + 1)..Len(els) : els[j].tag \in {"h1", "h2", "h3"} }
    IN  IF H = {} THEN Len(els) + 1 ELSE CHOOSE j \in H : \A k \in H : j <= k

\* C12: every section has a level in 1..3, the sections follow the document
\* order of their headings, every content item of a section comes from an
\* element after the section's heading and before the next heading of level
\* 1-3, and nothing before the first such heading is in a section.
C12_SectionSpan ==
    pc = "text_done" =>
        /\ \A s \in 1..Len(ret) : ret[s].level \in 1..3
        /\ \A s, t \in 1..Len(ret) : s < t => ret[s].at < ret[t].at
        /\ \A s \in 1..Len(ret) : \A k \in 1..Len(ret[s].from) :
              /\ ret[s].at < ret[s].from[k]
              /\ ret[s].from[k] < NextSectionHeading(arg, ret[s].at)
              /\ ret[s].from[k] > NextSectionHeading(arg, 0)

(***************************************************************************)
(* HTML extraction: tables                                                 *)
(***************************************************************************)
MaxRows == 2

\* a tr as the texts of its td and th cells
TableRows == { <<>>, <<"A">>, <<"A", "B">> }

\* a thead or tbody: <<>> when absent, else <<its rows>>
TablePart == { <<>> } \cup { <<r>> : r \in SeqsUpTo(TableRows, MaxRows) }

\* a table: its thead, its tbody and the rows that are in neither
Tables == [thead : TablePart, tbody : TablePart, loose : SeqsUpTo(TableRows, MaxRows)]

PartRows(part) == IF part = <<>> THEN <<>> ELSE part[1]

\* lines 572-578: the first row of the thead that has cells
table_headers(table) ==
    LET trs == PartRows(table.thead)
        full == { i \in 1..Len(trs) : trs[i] # <<>> }
    IN  IF full = {} THEN <<>> ELSE trs[CHOOSE i \in full : \A j \in full : i <= j]

\* lines 580-581 and 583: table_body.find_all('tr')
table_body(table) ==
    IF table.tbody # <<>> THEN PartRows(table.tbody)
    ELSE PartRows(table.thead) \o table.loose

\* lines 583-586 without the comparison with the headers
table_rows_all(table) ==
    SelectSeq(table_body(table), LAMBDA cells : cells # <<>>)

\* lines 583-586
table_rows(table) ==
    SelectSeq(table_body(table),
              LAMBDA cells : cells # <<>> /\ cells # table_headers(table))

\* lines 568-597 for one table
extract_all_tables(table) ==
    LET headers == table_headers(table)
        rows == table_rows(table)
    IN  IF rows # <<>> \/ headers # <<>>
        THEN <<[table_index |-> 1, headers |-> headers, rows |-> rows,
                row_count |-> Len(rows),
                column_count |-> IF headers # <<>> THEN Len(headers)
                                 ELSE IF rows # <<>> THEN Len(rows[1]) ELSE 0]>>
        ELSE <<>>

InitTables == InitFn("tables", Tables)

ExtractTables ==
    /\ pc = "tables"
    /\ pc' = "tables_done"
    /\ ret' = extract_all_tables(arg)
    /\ FnFrame

NextTables == ExtractTables

SpecTables == InitTables /\ [][NextTables]_vars

\* C13: column_count is the number of headers when there are headers and the
\* width of the first row otherwise, row_count is the number of rows, and no
\* row equals the header row, with or without thead and tbody.
C13_TableShape ==
    pc = "tables_done" =>
        \A t \in 1..Len(ret) :
            /\ ret[t].headers # <<>> => ret[t].column_count = Len(ret[t].headers)
            /\ ret[t].headers = <<>> =>
                  ret[t].rows # <<>> /\ ret[t].column_count = Len(ret[t].rows[1])
            /\ ret[t].row_count = Len(ret[t].rows)
            /\ \A r \in 1..Len(ret[t].rows) : ret[t].rows[r] # ret[t].headers

\* a table with a thead and no tbody: the header row is among the rows walked
C13_Witness ==
    /\ pc = "tables_done"
    /\ arg.tbody = <<>>
    /\ arg.thead = << <<(<<>>), <<"A", "B">>>> >>
    /\ arg.loose = << <<"A", "B">>, <<"A">> >>
    /\ Len(ret) = 1
    /\ ret[1].headers = <<"A", "B">>
    /\ ret[1].rows = << <<"A">> >>

(***************************************************************************)
(* PDF extraction: paragraphs                                              *)
(***************************************************************************)
MaxSentences == 8

\* line 179: the pieces re.split returns, each given by len(sentence.strip());
\* a sentence is named by its position in this list
SentenceLengths == {0, 20, 21}
SentenceLists == SeqsUpTo(SentenceLengths, MaxSentences)

\* lines 181-193 with a paragraph flushed at four sentences
RECURSIVE group_sentences_four(_, _, _, _)
group_sentences_four(sentences, i, paragraphs, current_para) ==
    IF i > Len(sentences)
    THEN IF current_para # <<>> THEN Append(paragraphs, current_para) ELSE paragraphs
    ELSE IF sentences[i] > 20
    THEN LET grown == Append(current_para, i) IN
         IF Len(grown) >= 4
         THEN group_sentences_four(sentences, i + 1, Append(paragraphs, grown), <<>>)
         ELSE group_sentences_four(sentences, i + 1, paragraphs, grown)
    ELSE group_sentences_four(sentences, i + 1, paragraphs, current_para)

\* lines 181-193; a paragraph is the list of the sentences that ' '.join joins
RECURSIVE group_sentences(_, _, _, _)
group_sentences(sentences, i, paragraphs, current_para) ==
    IF i > Len(sentences)
    THEN IF current_para # <<>> THEN Append(paragraphs, current_para) ELSE paragraphs
    ELSE IF sentences[i] > 20
    THEN LET grown == Append(current_para, i) IN
         IF Len(grown) >= 3
         THEN group_sentences(sentences, i + 1, Append(paragraphs, grown), <<>>)
         ELSE group_sentences(sentences, i + 1, paragraphs, grown)
    ELSE group_sentences(sentences, i + 1, paragraphs, current_para)

parse_pdf_into_paragraphs(sentences) == group_sentences(sentences, 1, <<>>, <<>>)

InitParagraphs == InitFn("paragraphs", SentenceLists)

ParsePdfIntoParagraphs ==
    /\ pc = "paragraphs"
    /\ pc' = "paragraphs_done"
    /\ ret' = parse_pdf_into_paragraphs(arg)
    /\ FnFrame

NextParagraphs == ParsePdfIntoParagraphs

SpecParagraphs == InitParagraphs /\ [][NextParagraphs]_vars

\* positions of the sentences longer than 20 characters, in order
Qualifying(sentences) ==
    SelectSeq([i \in 1..Len(sentences) |-> i], LAMBDA i : sentences[i] > 20)

RECURSIVE Concat(_)
Concat(ss) == IF ss = <<>> THEN <<>> ELSE Head(ss) \o Concat(Tail(ss))

ParagraphSizes(paragraphs) == [p \in 1..Len(paragraphs) |-> Len(paragraphs[p])]

\* C14: the paragraphs hold the qualifying sentences, each once and in their
\* original order, and no other sentence; every paragraph but the last holds
\* 3 sentences and the last holds 1 to 3; 7 qualifying sentences give
\* paragraphs of sizes 3, 3, 1.
C14_Grouping ==
    pc = "paragraphs_done" =>
        /\ Concat(ret) = Qualifying(arg)
        /\ \A p \in 1..Len(ret) :
              IF p < Len(ret) THEN Len(ret[p]) = 3 ELSE Len(ret[p]) \in 1..3
        /\ Len(Qualifying(arg)) = 7 => ParagraphSizes(ret) = <<3, 3, 1>>

C14_Witness ==
    /\ pc = "paragraphs_done"
    /\ arg = <<21, 21, 20, 21, 21, 21, 21, 21>>
    /\ ret = << <<1, 2, 4>>, <<5, 6, 7>>, <<8>> >>

(***************************************************************************)
(* PDF extraction: one PDF link of the processing loop                     *)
(***************************************************************************)
MaxPdfPages == 3

\* what page.extract_text() does on a page: raise, or return "", white space
\* only, or words
PageOutcomes == {"raises", "empty", "blank", "words"}

PageText(outcome) ==
    CASE outcome = "blank" -> <<" ">>
      [] outcome = "words" -> <<"words">>
      [] OTHER -> <<>>

\* the download, the file that open and PdfReader find, and its pages
PdfInputs ==
    [download : {"ok", "fails"}, file : {"readable", "corrupt"},
     pages : SeqsUpTo(PageOutcomes, MaxPdfPages)]

\* "\n\n".join(text_pages)
RECURSIVE JoinPages(_)
JoinPages(text_pages) ==
    IF text_pages = <<>> THEN <<>>
    ELSE IF Len(text_pages) = 1 THEN Head(text_pages)
    ELSE Head(text_pages) \o <<"\n\n">> \o JoinPages(Tail(text_pages))

IsSpace(c) == c \in {" ", "\n\n"}

\* re.sub(r'\s+', ' ', s)
RECURSIVE CollapseSpace(_)
CollapseSpace(s) ==
    IF s = <<>> THEN <<>>
    ELSE IF IsSpace(Head(s))
    THEN LET rest == CollapseSpace(Tail(s))
         IN  IF rest # <<>> /\ Head(rest) = " " THEN rest ELSE <<" ">> \o rest
    ELSE <<Head(s)>> \o CollapseSpace(Tail(s))

\* the dict has no key "error"
NoKey == "<no key>"

\* lines 197-246
extract_text_from_pdf(support, pdf) ==
    IF ~support
    THEN [full_text |-> <<>>, page_count |-> 0, word_count |-> 0,
          error |-> "PyPDF2 not installed"]
    ELSE IF pdf.file = "corrupt"
    THEN [full_text |-> <<>>, page_count |-> 0, word_count |-> 0, error |-> "str(e)"]
    ELSE LET texts == [i \in 1..Len(pdf.pages) |-> PageText(pdf.pages[i])]
             text_pages == SelectSeq(texts, LAMBDA t : t # <<>>)
             full_text_clean == CollapseSpace(JoinPages(text_pages))
         IN  [full_text |-> full_text_clean, page_count |-> Len(pdf.pages),
              word_count |-> Len(SelectSeq(full_text_clean, LAMBDA c : ~IsSpace(c))),
              error |-> NoKey]

InitPdf ==
    /\ pc = "pdf"
    /\ PDF_SUPPORT \in BOOLEAN
    /\ InitFetchVars
    /\ InitMainVars
    /\ link_url = <<>>
    /\ link_base = <<>>
    /\ link_valid = FALSE
    /\ soup = <<>>
    /\ heading = 0
    /\ section_links = <<>>
    /\ collected_links = <<>>
    /\ arg \in PdfInputs
    /\ ret = None

PdfFrame ==
    UNCHANGED <<fetchRest, PDF_SUPPORT, disease_pages, pageIdx, all_links, unique_links,
                exitKind, heldAtFinally, results_file, link_url, link_base, link_valid, soup, heading,
                section_links, collected_links, arg>>

\* lines 699-702: without PyPDF2 main skips the link
PdfSkipped ==
    /\ pc = "pdf"
    /\ ~PDF_SUPPORT
    /\ pc' = "pdf_done"
    /\ stats' = Bump(stats, "pdf_failed")
    /\ idx' = idx + 1
    /\ UNCHANGED <<results, abortCause, ret>>
    /\ UNCHANGED <<json_dir, text_dir>>
    /\ PdfFrame

\* lines 704, 250-253 and 713-717: process_pdf, the download fails
PdfDownloadFails ==
    /\ pc = "pdf"
    /\ PDF_SUPPORT
    /\ arg.download = "fails"
    /\ pc' = "pdf_done"
    /\ stats' = Bump(Bump(stats, "pdf_failed"), "failed")
    /\ results' = Append(results, Result(LinkPdf, "failed", "pdf"))
    /\ idx' = idx + 1
    /\ UNCHANGED <<abortCause, ret>>
    /\ UNCHANGED <<json_dir, text_dir>>
    /\ PdfFrame

\* lines 250 and 255: process_pdf calls extract_text_from_pdf
PdfExtract ==
    /\ pc = "pdf"
    /\ PDF_SUPPORT
    /\ arg.download = "ok"
    /\ pc' = "pdf_extracted"
    /\ ret' = extract_text_from_pdf(PDF_SUPPORT, arg)
    /\ UNCHANGED <<stats, results, idx, abortCause>>
    /\ UNCHANGED <<json_dir, text_dir>>
    /\ PdfFrame

\* extract_text_from_pdf called on its own
PdfExtractAlone ==
    /\ pc = "pdf"
    /\ pc' = "pdf_returned"
    /\ ret' = extract_text_from_pdf(PDF_SUPPORT, arg)
    /\ UNCHANGED <<stats, results, idx, abortCause>>
    /\ UNCHANGED <<json_dir, text_dir>>
    /\ PdfFrame

\* lines 257-259 and 713-717: no text, process_pdf returns None
PdfNoText ==
    /\ pc = "pdf_extracted"
    /\ ret.full_text = <<>>
    /\ pc' = "pdf_done"
    /\ stats' = Bump(Bump(stats, "pdf_failed"), "failed")
    /\ results' = Append(results, Result(LinkPdf, "failed", "pdf"))
    /\ idx' = idx + 1
    /\ UNCHANGED <<abortCause, ret>>
    /\ UNCHANGED <<json_dir, text_dir>>
    /\ PdfFrame

\* lines 261-272 and 706-712: the record is saved and counted
PdfSaved ==
    /\ pc = "pdf_extracted"
    /\ ret.full_text # <<>>
    /\ pc' = "pdf_done"
    /\ stats' = Bump(Bump(stats, "pdf_success"), "success")
    /\ json_dir' = WriteFiles(json_dir, "json", save_pdf_data(LinkPdf), 2)
    /\ text_dir' = WriteFiles(text_dir, "text_content", save_pdf_data(LinkPdf), 2)
    /\ results' = Append(results, Result(LinkPdf, "success", "pdf"))
    /\ idx' = idx + 1
    /\ UNCHANGED <<abortCause, ret>>
    /\ PdfFrame

\* line 707: save_pdf_data raises, nothing in the loop catches it
PdfSaveRaises ==
    /\ pc = "pdf_extracted"
    /\ ret.full_text # <<>>
    /\ pc' = "pdf_abort"
    /\ abortCause' = "save_pdf_data"
    /\ \E n \in 0..Len(save_pdf_data(LinkPdf)) :
         /\ json_dir' = WriteFiles(json_dir, "json", save_pdf_data(LinkPdf), n)
         /\ text_dir' = WriteFiles(text_dir, "text_content", save_pdf_data(LinkPdf), n)
    /\ UNCHANGED <<stats, results, idx, ret>>
    /\ PdfFrame

NextPdf ==
    \/ PdfSkipped \/ PdfDownloadFails \/ PdfExtract \/ PdfExtractAlone
    \/ PdfNoText \/ PdfSaved \/ PdfSaveRaises

SpecPdf == InitPdf /\ [][NextPdf]_vars

\* no page of the file gave any text
NoUsablePage(pdf) == \A i \in 1..Len(pdf.pages) : pdf.pages[i] \in {"raises", "empty"}

\* C15: when no text could be extracted (no PDF library, unreadable file, or
\* no usable page) the record returned has an empty full_text and an error
\* marker, and the caller records the link as 'insufficient'.
C15_EmptyTextMarked ==
    /\ (pc \in {"pdf_extracted", "pdf_returned"}
          /\ (~PDF_SUPPORT \/ arg.file = "corrupt" \/ NoUsablePage(arg)))
          => (ret.full_text = <<>> /\ ret.error # NoKey)
    /\ (pc = "pdf_done" /\ ret # None /\ ret.full_text = <<>>)
          => results[Len(results)].status = "insufficient"

(***************************************************************************)
(* Cleaning: clean_text                                                    *)
(***************************************************************************)
MaxTextLen == 4

\* one of the fixed strings of NAVIGATION_PATTERNS (line 33)
PrivacyPolicy == <<"Privacy", " ", "Policy">>
NAVIGATION_PATTERNS == <<PrivacyPolicy>>

\* the tokens of the texts given to clean_text on its own: capitalised words,
\* a lower-case word, white space, a full stop and a dash
TextTokens == {"Privacy", "Policy", "Copyright", "x", " ", "\n", ".", "-"}
CleanInputs == SeqsUpTo(TextTokens, MaxTextLen)

Upper ==
    {"Privacy", "Policy", "Copyright", "Recommendation", "Summary", "Case", "Strong",
     "Moderate", "Use drug X"}
EndLower ==
    {"Privacy", "Policy", "Copyright", "x", "Recommendation", "recommendation", "Summary",
     "Case", "Strong", "Moderate", "moderate", "certainty", "of evidence"}
White == {" ", "\n"}

\* re.sub(pattern, '', text) for a fixed string: the occurrences are found
\* from the left and do not overlap
RECURSIVE RemoveAll(_, _)
RemoveAll(text, pattern) ==
    IF text = <<>> THEN <<>>
    ELSE IF StartsWith(text, pattern)
    THEN RemoveAll(SubSeq(text, Len(pattern) + 1, Len(text)), pattern)
    ELSE <<Head(text)>> \o RemoveAll(Tail(text), pattern)

\* lines 106-107
RECURSIVE RemovePatterns(_, _)
RemovePatterns(text, patterns) ==
    IF patterns = <<>> THEN text
    ELSE RemovePatterns(RemoveAll(text, Head(patterns)), Tail(patterns))

\* length of the run of tokens of class at the head of text
RECURSIVE RunLength(_, _)
RunLength(text, class) ==
    IF text # <<>> /\ Head(text) \in class THEN 1 + RunLength(Tail(text), class) ELSE 0

\* re.sub(r'c{min,}', out, text): every maximal run of at least min tokens of
\* class becomes out
RECURSIVE ReplaceRuns(_, _, _, _)
ReplaceRuns(text, class, min, out) ==
    IF text = <<>> THEN <<>>
    ELSE LET n == RunLength(text, class) IN
         IF n = 0 THEN <<Head(text)>> \o ReplaceRuns(Tail(text), class, min, out)
         ELSE (IF n >= min THEN out ELSE SubSeq(text, 1, n))
                 \o ReplaceRuns(SubSeq(text, n + 1, Len(text)), class, min, out)

\* line 111: re.sub(r'\n\s*\n+', '\n\n', text): in a run of white space, what
\* lies between its first and its last newline
BlankLines(run) ==
    LET nl == { i \in 1..Len(run) : run[i] = "\n" }
        first == CHOOSE i \in nl : \A j \in nl : i <= j
        last == CHOOSE i \in nl : \A j \in nl : i >= j
    IN  IF Cardinality(nl) < 2 THEN run
        ELSE SubSeq(run, 1, first - 1) \o <<"\n", "\n">> \o SubSeq(run, last + 1, Len(run))

RECURSIVE CollapseBlankLines(_)
CollapseBlankLines(text) ==
    IF text = <<>> THEN <<>>
    ELSE LET n == RunLength(text, White) IN
         IF n = 0 THEN <<Head(text)>> \o CollapseBlankLines(Tail(text))
         ELSE BlankLines(SubSeq(text, 1, n))
                 \o CollapseBlankLines(SubSeq(text, n + 1, Len(text)))

\* lines 115-116: re.sub(r'([a-z])([A-Z])', r'\1 \2') and
\* re.sub(r'([\.!?])([A-Z])', r'\1 \2'): a blank between a token of class
\* left and a token of class right
RECURSIVE InsertBlank(_, _, _)
InsertBlank(text, left, right) ==
    IF Len(text) < 2 THEN text
    ELSE IF text[1] \in left /\ text[2] \in right
    THEN <<text[1], " ">> \o InsertBlank(Tail(text), left, right)
    ELSE <<text[1]>> \o InsertBlank(Tail(text), left, right)

\* line 123: re.sub(r'Copyright.*$', '', text, flags=MULTILINE | DOTALL)
CutCopyright(text) == SubSeq(text, 1, IndexOf(text, "Copyright") - 1)

\* str.strip()
RECURSIVE LStripWhite(_)
LStripWhite(text) ==
    IF text # <<>> /\ Head(text) \in White THEN LStripWhite(Tail(text)) ELSE text

RECURSIVE RStripWhite(_)
RStripWhite(text) ==
    IF text # <<>> /\ text[Len(text)] \in White
    THEN RStripWhite(SubSeq(text, 1, Len(text) - 1)) ELSE text

Strip(text) == RStripWhite(LStripWhite(text))

\* lines 100-125
clean_text(text) ==
    IF text = <<>> THEN <<>>
    ELSE LET t1 == RemovePatterns(text, NAVIGATION_PATTERNS)
             t2 == ReplaceRuns(t1, White, 1, <<" ">>)
             t3 == CollapseBlankLines(t2)
             t4 == ReplaceRuns(t3, {" "}, 1, <<" ">>)
             t5 == InsertBlank(t4, EndLower, Upper)
             t6 == InsertBlank(t5, {"."}, Upper)
             t7 == ReplaceRuns(t6, {"."}, 3, <<".", ".", ".">>)
             t8 == ReplaceRuns(t7, {"-"}, 3, <<"-", "-", "-">>)
             t9 == CutCopyright(t8)
         IN  Strip(t9)

InitClean == InitFn("clean", CleanInputs)

\* clean_text(s)
CleanText ==
    /\ pc = "clean"
    /\ pc' = "clean_once"
    /\ ret' = <<clean_text(arg)>>
    /\ FnFrame

\* clean_text applied to that result
CleanTextAgain ==
    /\ pc = "clean_once"
    /\ pc' = "clean_twice"
    /\ ret' = Append(ret, clean_text(ret[1]))
    /\ FnFrame

NextClean == CleanText \/ CleanTextAgain

SpecClean == InitClean /\ [][NextClean]_vars

\* C16: clean_text(clean_text(s)) = clean_text(s) for every s, also for the
\* s that hold no boilerplate pattern and no copyright marker.
C16_Idempotent == pc = "clean_twice" => ret[2] = ret[1]

(***************************************************************************)
(* Cleaning: extract_recommendations                                       *)
(***************************************************************************)
MaxRecs == 3

Digits == {"1", "2", "3", "5", "400", "000"}

\* the remainder of text from position i on
From(text, i) == SubSeq(text, i, Len(text))

\* smallest member of a non-empty set of positions
Least(S) == CHOOSE i \in S : \A j \in S : i <= j

\* word\s+\d+ at position i, case ignored
NumberedAt(text, i, word) ==
    /\ i <= Len(text)
    /\ LowerTok(text[i]) = word
    /\ LET n == RunLength(From(text, i + 1), White)
       IN  n >= 1 /\ i + 1 + n <= Len(text) /\ text[i + 1 + n] \in Digits

\* line 132: the lookahead (?=Recommendation\s+\d+|Case\s+\d+|$|Summary)
BlockEndsAt(text, q) ==
    \/ q = Len(text) + 1
    \/ NumberedAt(text, q, "recommendation")
    \/ NumberedAt(text, q, "case")
    \/ (q <= Len(text) /\ LowerTok(text[q]) = "summary")

\* line 132: Recommendation\s+(\d+)[:\s]+ matches at position i
RecStartsAt(text, i) ==
    /\ NumberedAt(text, i, "recommendation")
    /\ LET d == i + 1 + RunLength(From(text, i + 1), White)
       IN  RunLength(From(text, d + 1), White \cup {":"}) >= 1

GRADES == {"Strong", "Conditional", "Weak"}
CERTAINTIES == {"high", "moderate", "low", "very low"}

\* line 140: \((Strong|Conditional|Weak)\s+recommendation[^)]+\) matches at k;
\* the value is the position after the match, 0 when there is no match
GradeEnd(t, k) ==
    IF k + 1 <= Len(t) /\ t[k] = "(" /\ t[k + 1] \in GRADES
    THEN LET n == RunLength(From(t, k + 2), White)
             w == k + 2 + n
             close == { j \in (w + 1)..Len(t) : t[j] = ")" }
         IN  IF n >= 1 /\ w <= Len(t) /\ t[w] = "recommendation" /\ close # {}
                /\ Least(close) > w + 1
             THEN Least(close) + 1 ELSE 0
    ELSE 0

\* lines 140-141: the grade, None without a match
grade_of(rec_text) ==
    LET K == { k \in 1..Len(rec_text) : GradeEnd(rec_text, k) # 0 }
    IN  IF K = {} THEN None ELSE <<rec_text[Least(K) + 1]>>

\* line 144: \((?:high|moderate|low|very low)\s+certainty\) with the case
\* ignored, the position after the match or 0
CertaintyEnd(t, k) ==
    IF k + 1 <= Len(t) /\ t[k] = "(" /\ LowerTok(t[k + 1]) \in CERTAINTIES
    THEN LET n == RunLength(From(t, k + 2), White)
             w == k + 2 + n
         IN  IF n >= 1 /\ w + 1 <= Len(t) /\ LowerTok(t[w]) = "certainty" /\ t[w + 1] = ")"
             THEN w + 2 ELSE 0
    ELSE 0

\* lines 144-145: the text matched, None without a match
certainty_of(rec_text) ==
    LET K == { k \in 1..Len(rec_text) : CertaintyEnd(rec_text, k) # 0 }
    IN  IF K = {} THEN None
        ELSE SubSeq(rec_text, Least(K), CertaintyEnd(rec_text, Least(K)) - 1)

\* lines 133-157: the matches of rec_pattern from position p on
RECURSIVE recommendations_from(_, _)
recommendations_from(text, p) ==
    LET S == { i \in p..Len(text) : RecStartsAt(text, i) } IN
    IF S = {} THEN <<>>
    ELSE LET i == Least(S)
             d == i + 1 + RunLength(From(text, i + 1), White)
             b == d + 1 + RunLength(From(text, d + 1), White \cup {":"})
             q == Least({ j \in b..(Len(text) + 1) : BlockEndsAt(text, j) })
             rec_text == Strip(SubSeq(text, b, q - 1))
             rec == [number |-> text[d], text |-> clean_text(rec_text),
                     grade |-> grade_of(rec_text), certainty |-> certainty_of(rec_text),
                     raw_text |-> SubSeq(text, i, q - 1)]
         IN  (IF rec.text # <<>> THEN <<rec>> ELSE <<>>) \o recommendations_from(text, q)

extract_recommendations(text) == recommendations_from(text, 1)

\* "(Strong recommendation, moderate certainty)"
SharedParenthesis ==
    <<"(", "Strong", " ", "recommendation", ",", " ", "moderate", " ", "certainty", ")">>

RecBodies ==
    { <<"Use drug X", " ">> \o SharedParenthesis \o <<".", " ">>,
      <<"Use drug X", " ", "(", "Strong", " ", "recommendation", ",", " ", "level A", ")",
        " ", "(", "Moderate", " ", "certainty", ")", ".", " ">>,
      <<"Use drug X", " ", "(", "Strong", " ", "recommendation", ")", " ">>,
      <<"Use drug X", ".", " ", "Summary", " ", "of evidence", " ">>,
      <<"Use drug X", " ", "Case", " ", "3", " ">>,
      <<".", ".", ".">>,
      <<>> }

RecMarker(n) == <<"Recommendation", " ", n, ":", " ">>

\* guideline texts: up to MaxRecs numbered recommendations
RECURSIVE RecTexts(_)
RecTexts(n) ==
    IF n = 0 THEN { <<>> }
    ELSE RecTexts(n - 1) \cup
         { t \o RecMarker(IF n = 1 THEN "1" ELSE IF n = 2 THEN "2" ELSE "3") \o b :
             t \in { u \in RecTexts(n - 1) : n = 1 \/ u # <<>> }, b \in RecBodies }

InitRecs == InitFn("recs", RecTexts(MaxRecs))

ExtractRecommendations ==
    /\ pc = "recs"
    /\ pc' = "recs_done"
    /\ ret' = extract_recommendations(arg)
    /\ FnFrame

NextRecs == ExtractRecommendations

SpecRecs == InitRecs /\ [][NextRecs]_vars

\* 'Recommendation 1: Use drug X (Strong recommendation, moderate certainty).
\* Recommendation 2: ...'
C17_Example ==
    RecMarker("1") \o <<"Use drug X", " ">> \o SharedParenthesis \o <<".", " ">>
        \o RecMarker("2") \o <<".", ".", ".">>

\* C17: the example text gives two recommendations numbered '1' and '2', the
\* first with grade 'Strong' and a certainty that holds 'moderate certainty';
\* a grade and a certainty in one parenthesis are both extracted.
C17_GradeAndCertainty ==
    pc = "recs_done" =>
        /\ arg = C17_Example =>
              /\ Len(ret) = 2
              /\ ret[1].number = "1" /\ ret[2].number = "2"
              /\ ret[1].grade = <<"Strong">>
              /\ ret[1].certainty # None
              /\ Contains(ret[1].certainty, <<"moderate", " ", "certainty">>)
        /\ \A r \in 1..Len(ret) :
              Contains(ret[r].raw_text, SharedParenthesis) =>
                  /\ ret[r].grade = <<"Strong">>
                  /\ ret[r].certainty # None
                  /\ Contains(ret[r].certainty, <<"moderate", " ", "certainty">>)

(***************************************************************************)
(* Cleaning: extract_clinical_values                                       *)
(***************************************************************************)
MaxPhrases == 3

\* line 166: (mg|mcg|IU/mL|U/L|IU|mL|kg), in the order of the alternation
DOSAGE_UNITS ==
    << <<"mg">>, <<"mcg">>, <<"IU", "/mL">>, <<"U/L">>, <<"IU">>, <<"mL">>, <<"kg">> >>

\* line 166: (?:orally|subcutaneously|daily|weekly|monthly)
ROUTES == {"orally", "subcutaneously", "daily", "weekly", "monthly"}

\* line 176: (IU/mL|U/L|IU|mg/dL|years?|months?|weeks?|days?)
THRESHOLD_UNITS ==
    << <<"IU", "/mL">>, <<"U/L">>, <<"IU">>, <<"mg", "/dL">>, <<"years">>, <<"year">>,
       <<"months">>, <<"month">>, <<"weeks">>, <<"week">>, <<"days">>, <<"day">> >>

\* the first unit of the alternation found at position i, <<>> if none is
UnitAt(text, i, units) ==
    LET M == { k \in 1..Len(units) : StartsWith(From(text, i), units[k]) }
    IN  IF M = {} THEN <<>> ELSE units[Least(M)]

\* position after the white space that begins at position i
SkipWhite(text, i) == i + RunLength(From(text, i), White)

\* (\d+(?:sep\d+)?)\s*(unit) at position i: the number of tokens of the
\* number, 0 when there is no match; the longer number is tried first
NumberLen(text, i, sep, units) ==
    LET long == /\ i + 2 <= Len(text)
                /\ text[i] \in Digits /\ text[i + 1] = sep /\ text[i + 2] \in Digits
        unit(n) == UnitAt(text, SkipWhite(text, i + n), units)
    IN  IF i > Len(text) \/ text[i] \notin Digits THEN 0
        ELSE IF long /\ unit(3) # <<>> THEN 3
        ELSE IF unit(1) # <<>> THEN 1
        ELSE 0

\* the span is the pair of the first and the last position of the match
\* lines 166-173: the dosage that matches at position i
DosageAt(text, i) ==
    LET n == NumberLen(text, i, ".", DOSAGE_UNITS)
        u == SkipWhite(text, i + n)
        unit == UnitAt(text, u, DOSAGE_UNITS)
        r == SkipWhite(text, u + Len(unit))
        last == IF r <= Len(text) /\ text[r] \in ROUTES THEN r ELSE r - 1
    IN  [type |-> "dosage", value |-> SubSeq(text, i, last),
         operator |-> <<NoKey>>, number |-> SubSeq(text, i, i + n - 1), unit |-> unit,
         span |-> <<i, last>>]

\* the characters U+2265 (greater-than or equal to) and U+2264 (less-than or
\* equal to)
GE == "U+2265"
LE == "U+2264"

\* line 176: the operator alternation (GE, LE, <, >, >=, <=) at position i with
\* the rest of the pattern after it: the number of tokens of the operator, 0
\* when there is no match
OperatorLen(text, i) ==
    LET rest(k) == NumberLen(text, SkipWhite(text, i + k), ",", THRESHOLD_UNITS) # 0
    IN  IF i > Len(text) THEN 0
        ELSE IF text[i] \in {GE, LE, "<", ">"} /\ rest(1) THEN 1
        ELSE IF /\ text[i] \in {">", "<"}
                /\ i + 1 <= Len(text) /\ text[i + 1] = "="
                /\ rest(2) THEN 2
        ELSE 0

\* ThresholdAt with the operator group one token too long
ThresholdAt_long_operator(text, i) ==
    LET k == OperatorLen(text, i)
        d == SkipWhite(text, i + k)
        n == NumberLen(text, d, ",", THRESHOLD_UNITS)
        u == SkipWhite(text, d + n)
        unit == UnitAt(text, u, THRESHOLD_UNITS)
        last == u + Len(unit) - 1
    IN  [type |-> "threshold", value |-> SubSeq(text, i, last),
         operator |-> SubSeq(text, i, i + k), number |-> SubSeq(text, d, d + n - 1),
         unit |-> unit, span |-> <<i, last>>]

\* lines 176-184: the threshold that matches at position i
ThresholdAt(text, i) ==
    LET k == OperatorLen(text, i)
        d == SkipWhite(text, i + k)
        n == NumberLen(text, d, ",", THRESHOLD_UNITS)
        u == SkipWhite(text, d + n)
        unit == UnitAt(text, u, THRESHOLD_UNITS)
        last == u + Len(unit) - 1
    IN  [type |-> "threshold", value |-> SubSeq(text, i, last),
         operator |-> SubSeq(text, i, i + k - 1), number |-> SubSeq(text, d, d + n - 1),
         unit |-> unit, span |-> <<i, last>>]

\* re.finditer(dosage_pattern, text) from position p on
RECURSIVE dosages_from(_, _)
dosages_from(text, p) ==
    LET S == { i \in p..Len(text) : NumberLen(text, i, ".", DOSAGE_UNITS) # 0 } IN
    IF S = {} THEN <<>>
    ELSE LET m == DosageAt(text, Least(S))
         IN  <<m>> \o dosages_from(text, m.span[2] + 1)

\* re.finditer(threshold_pattern, text) from position p on
RECURSIVE thresholds_from(_, _)
thresholds_from(text, p) ==
    LET S == { i \in p..Len(text) : OperatorLen(text, i) # 0 } IN
    IF S = {} THEN <<>>
    ELSE LET m == ThresholdAt(text, Least(S))
         IN  <<m>> \o thresholds_from(text, m.span[2] + 1)

\* lines 161-186
extract_clinical_values(text) == dosages_from(text, 1) \o thresholds_from(text, 1)

Phrases ==
    { <<"administer", " ">>,
      <<"400", " ", "mg", " ", "orally">>,
      <<"ALT", " ">>,
      <<GE, " ", "1", ",", "000", " ", "U/L">>,
      <<"<", "5", " ", "IU", "/mL">>,
      <<">", "=", " ", "5", " ", "days">>,
      <<"<", "=", "2", " ", "weeks">>,
      <<"2", ".", "5", "mg">>,
      <<GE, " ", "400", " ", "mg", "/dL">>,
      <<" ">> }

\* texts: up to MaxPhrases phrases in a row
ClinicalTexts == { Concat(ps) : ps \in SeqsUpTo(Phrases, MaxPhrases) }

InitValues == InitFn("values", ClinicalTexts)

ExtractClinicalValues ==
    /\ pc = "values"
    /\ pc' = "values_done"
    /\ ret' = extract_clinical_values(arg)
    /\ FnFrame

NextValues == ExtractClinicalValues

SpecValues == InitValues /\ [][NextValues]_vars

\* C18: 'administer 400 mg orally' gives exactly one value, the dosage 400 mg;
\* 'ALT GE 1,000 U/L', GE being the character U+2265, gives exactly one value,
\* the threshold with operator GE, number '1,000' and unit 'U/L'.
C18_Examples ==
    pc = "values_done" =>
        /\ arg = <<"administer", " ", "400", " ", "mg", " ", "orally">> =>
              /\ Len(ret) = 1
              /\ ret[1].type = "dosage"
              /\ ret[1].number = <<"400">> /\ ret[1].unit = <<"mg">>
        /\ arg = <<"ALT", " ", GE, " ", "1", ",", "000", " ", "U/L">> =>
              /\ Len(ret) = 1
              /\ ret[1].type = "threshold"
              /\ ret[1].operator = <<GE>>
              /\ ret[1].number = <<"1", ",", "000">> /\ ret[1].unit = <<"U/L">>

\* C19: no position of the text lies inside a dosage match and inside a
\* threshold match, and in the list returned every dosage comes before every
\* threshold.
C19_DisjointSpans ==
    pc = "values_done" =>
        /\ \A d, t \in 1..Len(ret) :
              (ret[d].type = "dosage" /\ ret[t].type = "threshold") =>
                  (ret[d].span[2] < ret[t].span[1] \/ ret[t].span[2] < ret[d].span[1])
        /\ \A d, t \in 1..Len(ret) :
              (ret[d].type = "dosage" /\ ret[t].type = "threshold") => d < t

(***************************************************************************)
(* URL canonicalisation: clean_url on strings of characters                *)
(***************************************************************************)
MaxUrlLen == 4
MaxFragLen == 2

\* the characters that matter to clean_url, and one that does not
UrlChars == {"/", "#", "a"}

UrlInputs == [u : SeqsUpTo(UrlChars, MaxUrlLen), frag : SeqsUpTo(UrlChars, MaxFragLen)]

InitUrl == InitFn("url", UrlInputs)

\* clean_url(u), clean_url(u + '#' + frag), clean_url(u + '/') and
\* clean_url(clean_url(u))
CleanUrl ==
    /\ pc = "url"
    /\ pc' = "url_done"
    /\ ret' = [plain |-> clean_url(arg.u),
               with_fragment |-> clean_url(arg.u \o <<"#">> \o arg.frag),
               with_slash |-> clean_url(arg.u \o <<"/">>),
               again |-> clean_url(clean_url(arg.u))]
    /\ FnFrame

NextUrl == CleanUrl

SpecUrl == InitUrl /\ [][NextUrl]_vars

\* C20: clean_url(u + '#frag') = clean_url(u) and clean_url(u + '/') =
\* clean_url(u) for every string u and fragment; clean_url is idempotent, its
\* result holds no '#' and does not end with '/'.
C20_Canonical ==
    pc = "url_done" =>
        /\ ret.with_fragment = ret.plain
        /\ ret.with_slash = ret.plain
        /\ ret.again = ret.plain
        /\ ~InSeq("#", ret.plain)
        /\ ~EndsWith(ret.plain, <<"/">>)

C20_Witness ==
    /\ pc = "url_done"
    /\ arg.u = <<"a", "/", "/", "#">>
    /\ arg.frag = <<"/", "a">>
    /\ ret.plain = <<"a">>


\* the thresholds of the list returned
Thresholds == { ret[k] : k \in { j \in 1..Len(ret) : ret[j].type = "threshold" } }

STATUSES == {"success", "failed", "blocked", "insufficient", "error"}

TYPES == {"html", "pdf"}

\* C22: once main has completed its loop and written processing_results.json,
\* the list written has exactly one entry per URL of the deduplicated frontier,
\* in frontier order, each with a status among success, failed, blocked,
\* insufficient, error and a type among html, pdf, and the counters satisfy
\* success + failed + blocked + insufficient = total; with or without PyPDF2.
C22_OneEntryPerUrl ==
    results_file.written =>
        /\ Len(results_file.content) = Len(unique_links)
        /\ \A i \in 1..Len(results_file.content) :
              /\ results_file.content[i].url = unique_links[i]
              /\ results_file.content[i].status \in STATUSES
              /\ results_file.content[i].type \in TYPES
        /\ stats.success + stats.failed + stats.blocked + stats.insufficient
              = Len(unique_links)

\* the directories among data/json and data/text_content that hold a file
\* written for URL u
Artifacts(u) ==
    { d \in {"json", "text_content"} :
        sha256_hash(u) \in (IF d = "json" THEN json_dir ELSE text_dir) }

\* the statuses recorded for URL u
StatusesOf(u) == { results[k].status : k \in { j \in 1..Len(results) : results[j].url = u } }

\* C23: a raw record is persisted for a URL exactly when the status recorded
\* for that URL is 'success': a URL of the frontier has files in data/json or
\* data/text_content if and only if its result entry says success, so an
\* insufficient, failed or blocked URL has none.
C23_PersistedIffSuccess ==
    \A i \in 1..Len(unique_links) :
        (Artifacts(unique_links[i]) # {}) <=> ("success" \in StatusesOf(unique_links[i]))

====
